---------------------------- MODULE Spec2Model ----------------------------
(***************************************************************************)
(* The attention detector of special-disco: the alarm and challenge        *)
(* escalation machine of useAttentionDetector (session start/stop,         *)
(* calibration gating, the per-frame handler handleLandmarks, the          *)
(* acknowledgment silenceAlarm, triggerDebugAlarm, disarmAbsenceAlarm).    *)
(*                                                                         *)
(* Time.  Every timer of the code is a wall-clock value polled on a frame  *)
(* (now - start).  The model keeps the age now - start of each timer       *)
(* instead of absolute times, in ticks of one frame interval (1/FPS s):    *)
(* a frame comes 1..MaxGap ticks after the one before it and advances     *)
(* every age by that gap.  Ages saturate at the largest threshold they are *)
(* compared to.                                                            *)
(*                                                                         *)
(* Strings the code compares character by character (phrases, answers,     *)
(* warning messages) are sequences of one-character strings.               *)
(***************************************************************************)
EXTENDS Integers, Sequences, FiniteSets, TLC

(***************************************************************************)
(* Nullable values: None is null/undefined, Some(x) a value.               *)
(***************************************************************************)
None == << >>

Some(x) == << x >>

Val(o) == o[1]

Min(a, b) == IF a <= b THEN a ELSE b

Max(a, b) == IF a >= b THEN a ELSE b

(***************************************************************************)
(* String operations of the JavaScript runtime used by the code.           *)
(***************************************************************************)
LowerLetters ==
  <<"a", "b", "c", "d", "e", "f", "g", "h", "i", "j", "k", "l", "m",
    "n", "o", "p", "q", "r", "s", "t", "u", "v", "w", "x", "y", "z">>

UpperLetters ==
  <<"A", "B", "C", "D", "E", "F", "G", "H", "I", "J", "K", "L", "M",
    "N", "O", "P", "Q", "R", "S", "T", "U", "V", "W", "X", "Y", "Z">>

ToUpperChar(c) ==
  IF \E i \in 1..26 : LowerLetters[i] = c
    THEN UpperLetters[CHOOSE i \in 1..26 : LowerLetters[i] = c]
    ELSE c

\* String.prototype.toUpperCase
ToUpperCase(s) == [i \in 1..Len(s) |-> ToUpperChar(s[i])]

\* String.prototype.trim: strips leading and trailing white space
Trim(s) ==
  LET idx == {i \in 1..Len(s) : s[i] # " "}
  IN  IF idx = {} THEN << >>
      ELSE LET lo == CHOOSE i \in idx : \A j \in idx : i <= j
               hi == CHOOSE i \in idx : \A j \in idx : i >= j
           IN  SubSeq(s, lo, hi)

\* String.prototype.includes: w occurs in s as a substring
Includes(s, w) ==
  \E i \in 0..(Len(s) - Len(w)) : SubSeq(s, i + 1, i + Len(w)) = w

\* s.split(' ')[0]: the text before the first blank
FirstWord(s) ==
  LET sp == {i \in 1..Len(s) : s[i] = " "}
  IN  IF sp = {} THEN s
      ELSE SubSeq(s, 1, (CHOOSE i \in sp : \A j \in sp : i <= j) - 1)

Digits == <<"0", "1", "2", "3", "4", "5", "6", "7", "8", "9">>

RECURSIVE NatToString(_)
\* String(n) and n.toString() for a non-negative integer
NatToString(n) ==
  IF n < 10 THEN << Digits[n + 1] >>
  ELSE NatToString(n \div 10) \o << Digits[(n % 10) + 1] >>

RECURSIVE JoinWith(_, _)
\* Array.prototype.join
JoinWith(ws, sep) ==
  IF Len(ws) = 0 THEN << >>
  ELSE IF Len(ws) = 1 THEN ws[1]
  ELSE ws[1] \o sep \o JoinWith(Tail(ws), sep)

(***************************************************************************)
(* Bounds of the model.                                                    *)
(***************************************************************************)
\* Frames per second of the model: the detection rate FPS of the source (30)
\* scaled down; one tick of model time is one frame interval.
FrameRate == 1

\* How many different contents the random generators draw from.
NumDraws == 1

\* How many alarm batches, of both tiers together, a behaviour may generate.
MaxBatches == 2

\* Extra null frames explored after the sleeping threshold.
ExtraMissingFrames == 1

\* sessions started in a run of the model
MaxSessions == 1

\* A frame comes 1..MaxGap frame intervals after the frame before it.
MaxGap == 1

(***************************************************************************)
(* Program constants.                                                      *)
(***************************************************************************)
FPS == FrameRate

\* EYES_CLOSED_NOD_SEC = 3.5, in tenths of a second
EYES_CLOSED_NOD_DECISEC == 35

EYES_CLOSED_SLEEP_SEC == 5

CALIBRATION_DURATION_MS == 4000

\* MIN_CALIBRATION_FRAMES = 90 at the source's 30 FPS, i.e. 3 s of frames
SOURCE_FPS == 30

SOURCE_MIN_CALIBRATION_FRAMES == 90

MIN_CALIBRATION_FRAMES == (SOURCE_MIN_CALIBRATION_FRAMES * FPS) \div SOURCE_FPS

VOICE_GRACE_PERIOD_MS == 5000

\* the literal 5 of the absence countdown (seconds)
ABSENCE_ALARM_SEC == 5

LIBRARY_SIZE == 40

NODDING_BATCH_SIZE == 4

SLEEPING_BATCH_SIZE == 5

NUM_BASE_MESSAGES == 10

AttentionStates == {"awake", "noddingOff", "sleeping"}

ChallengeTypes == <<"phrase", "math", "trivia">>

\* age (ticks) >= ms milliseconds
AtLeastMs(age, ms) == age * 1000 >= ms * FPS

\* age (ticks) >= sec seconds
AtLeastSec(age, sec) == age >= sec * FPS

GraceTicks == (VOICE_GRACE_PERIOD_MS * FPS + 999) \div 1000

CalibrationTicks == (CALIBRATION_DURATION_MS * FPS + 999) \div 1000

AbsenceTicks == ABSENCE_ALARM_SEC * FPS

MaxMissingFrames == EYES_CLOSED_SLEEP_SEC * FPS + ExtraMissingFrames

(***************************************************************************)
(* Program data: the word bank, the trivia bank and the warning messages.   *)
(***************************************************************************)
WORD_BANK ==
  << <<"f", "o", "c", "u", "s">>,
     <<"a", "l", "e", "r", "t">>,
     <<"e", "n", "e", "r", "g", "y">>,
     <<"h", "y", "d", "r", "a", "t", "e">>,
     <<"s", "t", "r", "e", "t", "c", "h">>,
     <<"b", "r", "e", "a", "t", "h", "e">>,
     <<"w", "a", "k", "e">>,
     <<"a", "c", "t", "i", "v", "e">>,
     <<"b", "r", "i", "g", "h", "t">>,
     <<"s", "h", "a", "r", "p">>,
     <<"d", "r", "i", "v", "e">>,
     <<"s", "p", "a", "r", "k">>,
     <<"t", "e", "m", "p", "o">>,
     <<"p", "i", "v", "o", "t">>,
     <<"l", "a", "s", "e", "r">>,
     <<"g", "l", "o", "w">>,
     <<"b", "o", "u", "n", "c", "e">>,
     <<"c", "h", "a", "r", "g", "e">>,
     <<"i", "g", "n", "i", "t", "e">>,
     <<"t", "h", "r", "i", "v", "e">>,
     <<"r", "e", "s", "e", "t">>,
     <<"r", "e", "v", "i", "v", "e">>,
     <<"s", "t", "e", "a", "d", "y">>,
     <<"f", "o", "c", "u", "s">>,
     <<"c", "l", "a", "r", "i", "t", "y">>,
     <<"s", "w", "i", "f", "t">>,
     <<"f", "r", "e", "s", "h">>,
     <<"p", "r", "i", "m", "e">>,
     <<"v", "i", "v", "i", "d">>,
     <<"r", "i", "s", "e">>,
     <<"s", "t", "e", "a", "d", "y">>,
     <<"a", "w", "a", "k", "e">>,
     <<"m", "i", "r", "r", "o", "r">>,
     <<"s", "t", "r", "i", "d", "e">>,
     <<"s", "p", "a", "r", "k", "l", "e">>,
     <<"p", "u", "l", "s", "e">>,
     <<"a", "n", "c", "h", "o", "r">>,
     <<"i", "g", "n", "i", "t", "e">>,
     <<"m", "o", "m", "e", "n", "t", "u", "m">> >>

TRIVIA_BANK ==
  << [prompt |->
          <<"S", "p", "e", "l", "l", " ", "t", "h", "e", " ", "d", "a", "y",
            " ", "t", "h", "a", "t", " ", "f", "o", "l", "l", "o", "w", "s",
            " ", "T", "u", "e", "s", "d", "a", "y", ".">>,
        answer |-> <<"W", "E", "D", "N", "E", "S", "D", "A", "Y">>],
     [prompt |->
          <<"T", "y", "p", "e", " ", "t", "h", "e", " ", "w", "o", "r", "d",
            " ", "'", "S", "U", "N", "R", "I", "S", "E", "'", " ", "b", "a",
            "c", "k", "w", "a", "r", "d", "s", ".">>,
        answer |-> <<"E", "S", "I", "R", "N", "U", "S">>],
     [prompt |->
          <<"W", "h", "a", "t", " ", "p", "l", "a", "n", "e", "t", " ", "i",
            "s", " ", "k", "n", "o", "w", "n", " ", "a", "s", " ", "t", "h",
            "e", " ", "R", "e", "d", " ", "P", "l", "a", "n", "e", "t", "?">>,
        answer |-> <<"M", "A", "R", "S">>],
     [prompt |->
          <<"W", "h", "a", "t", " ", "i", "s", " ", "t", "h", "e", " ", "c",
            "a", "p", "i", "t", "a", "l", " ", "c", "i", "t", "y", " ", "o",
            "f", " ", "F", "r", "a", "n", "c", "e", "?">>,
        answer |-> <<"P", "A", "R", "I", "S">>],
     [prompt |->
          <<"S", "p", "e", "l", "l", " ", "t", "h", "e", " ", "c", "h", "e",
            "m", "i", "c", "a", "l", " ", "s", "y", "m", "b", "o", "l", " ",
            "f", "o", "r", " ", "w", "a", "t", "e", "r", ".">>,
        answer |-> <<"H", "2", "O">>],
     [prompt |->
          <<"T", "y", "p", "e", " ", "t", "h", "e", " ", "f", "i", "r", "s",
            "t", " ", "t", "h", "r", "e", "e", " ", "l", "e", "t", "t", "e",
            "r", "s", " ", "o", "f", " ", "t", "h", "e", " ", "a", "l", "p",
            "h", "a", "b", "e", "t", " ", "i", "n", " ", "r", "e", "v", "e",
            "r", "s", "e", " ", "o", "r", "d", "e", "r", ".">>,
        answer |-> <<"C", "B", "A">>],
     [prompt |->
          <<"W", "h", "a", "t", " ", "a", "n", "i", "m", "a", "l", " ", "s",
            "a", "y", "s", " ", "'", "m", "o", "o", "'", "?">>,
        answer |-> <<"C", "O", "W">>],
     [prompt |->
          <<"S", "p", "e", "l", "l", " ", "t", "h", "e", " ", "w", "o", "r",
            "d", " ", "'", "e", "n", "e", "r", "g", "y", "'", " ", "i", "n",
            " ", "l", "o", "w", "e", "r", "c", "a", "s", "e", " ", "l", "e",
            "t", "t", "e", "r", "s", ".">>,
        answer |-> <<"e", "n", "e", "r", "g", "y">>] >>

WARNING_MESSAGES ==
  [ eyesClosing |->
      <<"Y", "o", "u", "r", " ", "e", "y", "e", "s", " ", "a", "r", "e",
        " ", "c", "l", "o", "s", "i", "n", "g", ".", " ", "S", "t", "a",
        "y", " ", "a", "l", "e", "r", "t", ".">>,
    eyesClosed |->
      <<"P", "l", "e", "a", "s", "e", " ", "o", "p", "e", "n", " ", "y",
        "o", "u", "r", " ", "e", "y", "e", "s", ".">>,
    headNodding |->
      <<"P", "l", "e", "a", "s", "e", " ", "k", "e", "e", "p", " ", "y",
        "o", "u", "r", " ", "h", "e", "a", "d", " ", "u", "p", ".">>,
    headTiltingBack |->
      <<"S", "i", "t", " ", "u", "p", " ", "s", "t", "r", "a", "i", "g",
        "h", "t", ".">>,
    headTilted |->
      <<"S", "t", "r", "a", "i", "g", "h", "t", "e", "n", " ", "y", "o",
        "u", "r", " ", "h", "e", "a", "d", ".">>,
    slouching |->
      <<"P", "l", "e", "a", "s", "e", " ", "c", "o", "r", "r", "e", "c",
        "t", " ", "y", "o", "u", "r", " ", "p", "o", "s", "t", "u", "r",
        "e", ".">>,
    slouchingForward |->
      <<"Y", "o", "u", "'", "r", "e", " ", "s", "l", "o", "u", "c", "h",
        "i", "n", "g", " ", "f", "o", "r", "w", "a", "r", "d", ".", " ",
        "S", "i", "t", " ", "b", "a", "c", "k", ".">>,
    leaningForward |->
      <<"Y", "o", "u", "'", "r", "e", " ", "l", "e", "a", "n", "i", "n",
        "g", " ", "t", "o", "o", " ", "f", "a", "r", " ", "f", "o", "r",
        "w", "a", "r", "d", ".">>,
    leaningBackward |->
      <<"P", "l", "e", "a", "s", "e", " ", "s", "i", "t", " ", "u", "p",
        "r", "i", "g", "h", "t", ".">>,
    noFaceDetected |->
      <<"P", "l", "e", "a", "s", "e", " ", "r", "e", "t", "u", "r", "n",
        " ", "t", "o", " ", "y", "o", "u", "r", " ", "d", "e", "s", "k",
        ".">>,
    bodyNotPresent |->
      <<"S", "t", "a", "y", " ", "i", "n", " ", "f", "r", "a", "m", "e",
        ".">>,
    yawning |->
      <<"T", "a", "k", "e", " ", "a", " ", "d", "e", "e", "p", " ", "b",
        "r", "e", "a", "t", "h", " ", "a", "n", "d", " ", "r", "e", "f",
        "o", "c", "u", "s", ".">>,
    frequentYawning |->
      <<"Y", "o", "u", " ", "s", "e", "e", "m", " ", "t", "i", "r", "e",
        "d", ".", " ", "C", "o", "n", "s", "i", "d", "e", "r", " ", "t",
        "a", "k", "i", "n", "g", " ", "a", " ", "b", "r", "e", "a", "k",
        ".">>,
    lookingAway |->
      <<"K", "e", "e", "p", " ", "y", "o", "u", "r", " ", "f", "o", "c",
        "u", "s", " ", "o", "n", " ", "t", "h", "e", " ", "s", "c", "r",
        "e", "e", "n", ".">>,
    finalWarning |->
      <<"T", "h", "i", "s", " ", "i", "s", " ", "y", "o", "u", "r", " ",
        "f", "i", "n", "a", "l", " ", "w", "a", "r", "n", "i", "n", "g",
        ".", " ", "C", "o", "r", "r", "e", "c", "t", " ", "y", "o", "u",
        "r", " ", "p", "o", "s", "t", "u", "r", "e", " ", "n", "o", "w",
        ".">>,
    alarmIncoming |->
      <<"A", "l", "a", "r", "m", " ", "w", "i", "l", "l", " ", "s", "o",
        "u", "n", "d", " ", "i", "n", " ", "3", " ", "s", "e", "c", "o",
        "n", "d", "s", ".">> ]

(***************************************************************************)
(* The alarm library and the challenge generators.                         *)
(***************************************************************************)
Str_Solve == <<"S", "o", "l", "v", "e", ":", " ">>

Str_Plus == <<" ", "+", " ">>

Str_Minus == <<" ", "-", " ">>

Str_Equals == <<" ", "=", " ", "?">>

\* createAlarmLibrary: entry i (0-based) of one tier
AlarmDefinition(type, i) ==
  [id      |-> << type, i + 1 >>,
   message |-> << type, i + 1, i % NUM_BASE_MESSAGES >>,
   level   |-> IF type = "nodding" THEN "warning" ELSE "critical"]

ALARM_LIBRARY ==
  [nodding  |-> [i \in 0..(LIBRARY_SIZE - 1) |-> AlarmDefinition("nodding", i)],
   sleeping |-> [i \in 0..(LIBRARY_SIZE - 1) |-> AlarmDefinition("sleeping", i)]]

(***************************************************************************)
(* The values Math.random() yields are inputs: a draw fixes every random   *)
(* choice one handler makes.                                               *)
(*   u: the first value of Math.random() in a handler, in sixths: it is in *)
(*      [u/6, (u+1)/6).  A handler makes one choice of type with it: the   *)
(*      caller's Math.random() < 0.5 ? "math" : "trivia", or else          *)
(*      createChallenge's types[floor(random * 3)].                        *)
(*   k: the contents (word indices, digits, operands, trivia index)        *)
(***************************************************************************)
Draws == [u : 0..5, k : 1..NumDraws]

DefaultDraw == [u |-> 0, k |-> 1]

\* types[Math.floor(Math.random() * types.length)]
RandomType(d) == ChallengeTypes[(d.u \div 2) + 1]

\* Math.random() < 0.5 ? "math" : "trivia"
Coin(d) == Some(IF d.u < 3 THEN "math" ELSE "trivia")

DrawWords(k) ==
  << (k - 1) % Len(WORD_BANK), k % Len(WORD_BANK),
     (k + 1) % Len(WORD_BANK), (k + 5) % Len(WORD_BANK) >>

DrawDigits(k) == 100 + ((23 * k) % 900)

DrawA(k) == 10 + ((37 * k) % 90)

DrawB(k) == 10 + ((53 * k) % 90)

DrawC(k) == 1 + ((5 * k) % 9)

DrawTrivia(k) == (4 * k + 3) % Len(TRIVIA_BANK)

\* generateAlarmPhrase: four distinct bank words in upper case, then 3 digits
generateAlarmPhrase(k) ==
  JoinWith([i \in 1..4 |-> ToUpperCase(WORD_BANK[DrawWords(k)[i] + 1])], <<"-">>)
    \o <<"-">> \o NatToString(DrawDigits(k))

generateMathChallenge(k) ==
  [prompt |-> Str_Solve \o NatToString(DrawA(k)) \o Str_Plus
                \o NatToString(DrawB(k)) \o Str_Minus
                \o NatToString(DrawC(k)) \o Str_Equals,
   answer |-> NatToString(DrawA(k) + DrawB(k) - DrawC(k))]

generateTriviaChallenge(k) == TRIVIA_BANK[DrawTrivia(k) + 1]

\* A faulty createChallenge: the preferred type is ignored.
createChallengeIgnoringPreferred(preferred, d) ==
  LET chosen == RandomType(d)
  IN  IF chosen = "math"
        THEN [type |-> "math", phrase |-> None,
              prompt |-> Some(generateMathChallenge(d.k).prompt),
              answer |-> Some(generateMathChallenge(d.k).answer)]
      ELSE IF chosen = "trivia"
        THEN [type |-> "trivia", phrase |-> None,
              prompt |-> Some(generateTriviaChallenge(d.k).prompt),
              answer |-> Some(generateTriviaChallenge(d.k).answer)]
      ELSE [type |-> "phrase", phrase |-> Some(generateAlarmPhrase(d.k)),
            prompt |-> None, answer |-> None]

\* createChallenge(preferred): preferred is None or Some(type)
createChallenge(preferred, d) ==
  LET chosen == IF preferred # None THEN Val(preferred) ELSE RandomType(d)
  IN  IF chosen = "math"
        THEN [type |-> "math", phrase |-> None,
              prompt |-> Some(generateMathChallenge(d.k).prompt),
              answer |-> Some(generateMathChallenge(d.k).answer)]
      ELSE IF chosen = "trivia"
        THEN [type |-> "trivia", phrase |-> None,
              prompt |-> Some(generateTriviaChallenge(d.k).prompt),
              answer |-> Some(generateTriviaChallenge(d.k).answer)]
      ELSE [type |-> "phrase", phrase |-> Some(generateAlarmPhrase(d.k)),
            prompt |-> None, answer |-> None]

(***************************************************************************)
(* State of one useAttentionDetector instance.                             *)
(***************************************************************************)
VARIABLES
  isActive,             \* the hook's isActive argument
  calibration,          \* calibrationRef: collecting, age of startTimestamp, sample count
  baselines,            \* TRUE iff the baselines state is non-null
  state,                \* displayed attention state
  confidence,           \* displayed confidence ("fused": computed by the fusion)
  activeAlarms,         \* activeAlarmsRef / activeAlarms
  alarmPhrase,          \* alarmPhraseRef / alarmPhrase
  requireAck,           \* requireAckRef / requireAlarmAck
  challengePrompt,      \* challengePrompt
  challengeType,        \* challengeTypeRef / challengeType
  challengeAnswer,      \* challengeAnswerRef
  latestState,          \* latestStateRef
  lastAlarmState,       \* lastAlarmStateRef
  missingFaceFrames,    \* missingFaceFramesRef
  alarmCursor,          \* alarmCursorRef
  absentCountdown,      \* absentCountdown, in ticks left
  isAbsenceAlarmArmed,  \* isAbsenceAlarmArmed
  absentStart,          \* age of absentStartTimeRef
  activeWarning,        \* activeWarning (key of WARNING_MESSAGES)
  warningStart,         \* age of warningStartTimeRef
  closure,              \* the values handleLandmarks captured when its effect last ran
  ev,                   \* what the last operation did (observation only)
  disarmedInSession,    \* history: disarmAbsenceAlarm was called in this session
  nullRun,              \* history: the current run of null frames
  riskRun,              \* history: the current run of fused risk frames
  sessions,             \* history: number of sessions started
  calRun,               \* history: the landmark frames seen while collecting
  eyes,                 \* closedFramesRef and the eyesClosedSec it reports
  emitter,              \* lastEmitTimeRef and the snapshots pushed
  trackers,             \* HeadNodDetector, isHeadTilted, PostureTracker
  fusion,               \* the inputs of one evidence fusion
  voice,                \* the module state of voiceWarnings.ts
  picker,               \* the metrics of one getWarningForState call and its result
  yawnDetector,         \* YawnDetector
  resetPair,            \* a used and reset PostureTracker next to a new one
  sideBySide,           \* two sessions on one voiceWarnings module, and the first one alone
  tracking,             \* the tracking effects run so far and their trackers
  popup                 \* the puzzle challenge of the extension popup

vars ==
  << isActive, calibration, baselines, state, confidence, activeAlarms,
     alarmPhrase, requireAck, challengePrompt, challengeType, challengeAnswer,
     latestState, lastAlarmState, missingFaceFrames, alarmCursor,
     absentCountdown, isAbsenceAlarmArmed, absentStart, activeWarning,
     warningStart, closure, ev, disarmedInSession, nullRun, riskRun,
     sessions, calRun, eyes, emitter, trackers, fusion, voice, picker,
     yawnDetector, resetPair, sideBySide, tracking, popup >>

\* The parts of a frame modelled on their own (eye closure, snapshot emission,
\* the trackers, the evidence fusion); the escalation machine takes the fused
\* outcome of a frame as its input and leaves them alone.
parts == << eyes, emitter, trackers, fusion, voice, picker, yawnDetector,
           resetPair, sideBySide, tracking, popup >>

\* the state of the escalation machine
machine ==
  << isActive, calibration, baselines, state, confidence, activeAlarms,
     alarmPhrase, requireAck, challengePrompt, challengeType, challengeAnswer,
     latestState, lastAlarmState, missingFaceFrames, alarmCursor,
     absentCountdown, isAbsenceAlarmArmed, absentStart, activeWarning,
     warningStart, closure, ev, disarmedInSession, nullRun, riskRun,
     sessions, calRun >>

\* The program state as one record, so that a handler is a function of it.
M ==
  [isActive |-> isActive, calibration |-> calibration, baselines |-> baselines,
   state |-> state, confidence |-> confidence, activeAlarms |-> activeAlarms,
   alarmPhrase |-> alarmPhrase, requireAck |-> requireAck,
   challengePrompt |-> challengePrompt, challengeType |-> challengeType,
   challengeAnswer |-> challengeAnswer, latestState |-> latestState,
   lastAlarmState |-> lastAlarmState, missingFaceFrames |-> missingFaceFrames,
   alarmCursor |-> alarmCursor, absentCountdown |-> absentCountdown,
   isAbsenceAlarmArmed |-> isAbsenceAlarmArmed, absentStart |-> absentStart,
   activeWarning |-> activeWarning, warningStart |-> warningStart,
   closure |-> closure, ev |-> ev]

NoEvent(op) ==
  [op |-> op, gap |-> 0, path |-> "none", spoke |-> FALSE, batches |-> << >>,
   challenges |-> 0, ret |-> "none", preAck |-> requireAck]

Begin(op) == [M EXCEPT !.ev = NoEvent(op)]

(***************************************************************************)
(* The hook's callbacks.                                                   *)
(***************************************************************************)
updateActiveAlarms(m, alarms) == [m EXCEPT !.activeAlarms = alarms]

updateRequireAck(m, value) == [m EXCEPT !.requireAck = value]

updateAlarmPhrase(m, phrase) == [m EXCEPT !.alarmPhrase = phrase]

updateChallenge(m, type, prompt, answer) ==
  [m EXCEPT !.challengeType = type, !.challengeAnswer = answer,
            !.challengePrompt = prompt]

\* A faulty assignNewChallenge: a math or trivia challenge leaves the phrase
\* of the challenge before it in place.
assignNewChallengeKeepingPhrase(m, preferred, d) ==
  LET challenge == createChallenge(preferred, d)
      m1 == IF challenge.type = "phrase" /\ challenge.phrase # None
                 /\ Val(challenge.phrase) # << >>
              THEN updateChallenge(updateAlarmPhrase(m, challenge.phrase),
                                   "phrase", None, None)
              ELSE updateChallenge(m, challenge.type, challenge.prompt,
                                   challenge.answer)
  IN  [m1 EXCEPT !.ev.challenges = @ + 1]

assignNewChallenge(m, preferred, d) ==
  LET challenge == createChallenge(preferred, d)
      m1 == IF challenge.type = "phrase" /\ challenge.phrase # None
                 /\ Val(challenge.phrase) # << >>
              THEN updateChallenge(updateAlarmPhrase(m, challenge.phrase),
                                   "phrase", None, None)
              ELSE updateChallenge(updateAlarmPhrase(m, None), challenge.type,
                                   challenge.prompt, challenge.answer)
  IN  [m1 EXCEPT !.ev.challenges = @ + 1]

resetAlarmState(m) ==
  updateChallenge(
    [updateRequireAck(updateAlarmPhrase(updateActiveAlarms(m, << >>), None), FALSE)
       EXCEPT !.lastAlarmState = "awake"],
    "phrase", None, None)

\* getAlarmBatch followed by updateActiveAlarms, as every caller does
\* A faulty getAlarmBatch: the cursor stops on the last entry of the batch.
getAlarmBatchOverlapping(m, type, count) ==
  LET cursor == m.alarmCursor[type]
      batch  == [i \in 1..count |->
                   ALARM_LIBRARY[type][(cursor + (i - 1)) % LIBRARY_SIZE]]
  IN  [updateActiveAlarms(m, batch) EXCEPT
         !.alarmCursor[type] = (cursor + count - 1) % LIBRARY_SIZE,
         !.ev.batches = Append(@, type)]

getAlarmBatch(m, type, count) ==
  LET cursor == m.alarmCursor[type]
      batch  == [i \in 1..count |->
                   ALARM_LIBRARY[type][(cursor + (i - 1)) % LIBRARY_SIZE]]
  IN  [updateActiveAlarms(m, batch) EXCEPT
         !.alarmCursor[type] = (cursor + count) % LIBRARY_SIZE,
         !.ev.batches = Append(@, type)]

\* A faulty silenceAccepts: the phrase is compared ignoring letter case.
silenceAcceptsIgnoringCase(m, input) ==
  /\ m.latestState = "awake"
  /\ IF m.challengeType = "phrase"
       THEN m.alarmPhrase # None /\ Val(m.alarmPhrase) # << >>
            /\ ToUpperCase(input) = ToUpperCase(Val(m.alarmPhrase))
     ELSE IF m.challengeType = "math"
       THEN m.challengeAnswer # None /\ Val(m.challengeAnswer) # << >>
            /\ Trim(input) = Val(m.challengeAnswer)
     ELSE m.challengeAnswer # None /\ Val(m.challengeAnswer) # << >>
          /\ ToUpperCase(Trim(input)) = ToUpperCase(Val(m.challengeAnswer))

\* A faulty silenceAccepts: the check of latestStateRef is missing.
silenceAcceptsAnyState(m, input) ==
  IF m.challengeType = "phrase"
    THEN m.alarmPhrase # None /\ Val(m.alarmPhrase) # << >>
         /\ input = Val(m.alarmPhrase)
  ELSE IF m.challengeType = "math"
    THEN m.challengeAnswer # None /\ Val(m.challengeAnswer) # << >>
         /\ Trim(input) = Val(m.challengeAnswer)
  ELSE m.challengeAnswer # None /\ Val(m.challengeAnswer) # << >>
       /\ ToUpperCase(Trim(input)) = ToUpperCase(Val(m.challengeAnswer))

\* the challenge input accepted by silenceAlarm while an acknowledgment is required
silenceAccepts(m, input) ==
  /\ m.latestState = "awake"
  /\ IF m.challengeType = "phrase"
       THEN m.alarmPhrase # None /\ Val(m.alarmPhrase) # << >>
            /\ input = Val(m.alarmPhrase)
     ELSE IF m.challengeType = "math"
       THEN m.challengeAnswer # None /\ Val(m.challengeAnswer) # << >>
            /\ Trim(input) = Val(m.challengeAnswer)
     ELSE m.challengeAnswer # None /\ Val(m.challengeAnswer) # << >>
          /\ ToUpperCase(Trim(input)) = ToUpperCase(Val(m.challengeAnswer))

\* A faulty silenceAlarm: a rejected answer silences the batch.
silenceAlarmQuietOnReject(m, input) ==
  IF ~m.requireAck
    THEN [resetAlarmState(m) EXCEPT !.ev.ret = "true"]
  ELSE IF silenceAccepts(m, input)
    THEN [resetAlarmState(m) EXCEPT !.ev.ret = "true"]
  ELSE [updateActiveAlarms(m, << >>) EXCEPT !.ev.ret = "false"]

silenceAlarm(m, input) ==
  IF ~m.requireAck
    THEN [resetAlarmState(m) EXCEPT !.ev.ret = "true"]
  ELSE IF silenceAccepts(m, input)
    THEN [resetAlarmState(m) EXCEPT !.ev.ret = "true"]
  ELSE [m EXCEPT !.ev.ret = "false"]

triggerDebugAlarm(m, preferred, d) ==
  LET m1 == assignNewChallenge(resetAlarmState(m), preferred, d)
      treatAsSleeping == m1.challengeType # "phrase"
      m2 == getAlarmBatch(m1, IF treatAsSleeping THEN "sleeping" ELSE "nodding",
                          IF treatAsSleeping THEN SLEEPING_BATCH_SIZE
                          ELSE NODDING_BATCH_SIZE)
      forcedState == IF treatAsSleeping THEN "sleeping" ELSE "noddingOff"
  IN  [updateRequireAck(m2, TRUE) EXCEPT
         !.latestState = forcedState, !.lastAlarmState = forcedState,
         !.state = forcedState,
         !.confidence = IF treatAsSleeping THEN "0.99" ELSE "0.95"]

disarmAbsenceAlarm(m) ==
  [m EXCEPT !.isAbsenceAlarmArmed = FALSE, !.absentCountdown = None,
            !.absentStart = None]

(***************************************************************************)
(* handleLandmarks(null): the frame carries no landmarks.                  *)
(***************************************************************************)
ResetCalibrationSamples(m) ==
  [m EXCEPT !.calibration.startAge = None, !.calibration.samples = 0]

\* the 5-second absence countdown raising its alarm
AbsenceCountdownAlarm(m, d) ==
  LET m1 == getAlarmBatch(m, "sleeping", SLEEPING_BATCH_SIZE)
      m2 == updateRequireAck(assignNewChallenge(m1, Coin(d), d), TRUE)
  IN  [m2 EXCEPT !.lastAlarmState = "sleeping", !.state = "sleeping",
                 !.confidence = "0.99", !.ev.path = "absence"]

\* A faulty calibrating branch: the samples and the start timestamp are kept.
MissingWhileCalibratingKeepingSamples(m) ==
  LET m1 == [m EXCEPT !.state = "awake", !.confidence = "0.2"]
      m2 == IF ~m1.requireAck THEN resetAlarmState(m1) ELSE m1
  IN  [m2 EXCEPT !.absentStart = None, !.absentCountdown = None,
                 !.ev.path = "calibrating"]

\* no landmarks while calibration is collecting
MissingWhileCalibrating(m) ==
  LET m1 == [ResetCalibrationSamples(m) EXCEPT
               !.state = "awake", !.confidence = "0.2"]
      m2 == IF ~m1.requireAck THEN resetAlarmState(m1) ELSE m1
  IN  [m2 EXCEPT !.absentStart = None, !.absentCountdown = None,
                 !.ev.path = "calibrating"]

MissingSleep(m, d) ==
  LET m1 == [m EXCEPT !.latestState = "sleeping"]
      m2 == IF ~m1.requireAck \/ m1.lastAlarmState # "sleeping"
              THEN LET b == getAlarmBatch(m1, "sleeping", SLEEPING_BATCH_SIZE)
                       c == IF ~b.requireAck
                              THEN assignNewChallenge(b, Coin(d), d)
                              ELSE assignNewChallenge(b, Some("math"), d)
                   IN  [updateRequireAck(c, TRUE) EXCEPT
                          !.lastAlarmState = "sleeping"]
            ELSE IF m1.requireAck /\ Len(m1.activeAlarms) = 0
              THEN getAlarmBatch(m1, "sleeping", SLEEPING_BATCH_SIZE)
            ELSE m1
  IN  [m2 EXCEPT !.state = "sleeping", !.confidence = "0.98"]

MissingNod(m, d) ==
  LET m1 == [m EXCEPT !.latestState = "noddingOff"]
      m2 == IF ~m1.requireAck \/ m1.lastAlarmState # "noddingOff"
              THEN LET b == getAlarmBatch(m1, "nodding", NODDING_BATCH_SIZE)
                       c == IF ~b.requireAck
                              THEN assignNewChallenge(b, None, d)
                              ELSE b
                   IN  [updateRequireAck(c, TRUE) EXCEPT
                          !.lastAlarmState = "noddingOff"]
            ELSE IF m1.requireAck /\ Len(m1.activeAlarms) = 0
              THEN getAlarmBatch(m1, "nodding", NODDING_BATCH_SIZE)
            ELSE m1
  IN  [m2 EXCEPT !.state = "noddingOff", !.confidence = "0.94"]

\* a missing-face awake branch that empties the batch whatever requireAck is
MissingAwakeClearingBatch(m) ==
  LET m1 == [m EXCEPT !.latestState = "awake", !.state = "awake",
                      !.confidence = "0.25"]
  IN  IF ~m1.requireAck THEN resetAlarmState(m1)
      ELSE updateActiveAlarms(m1, << >>)

MissingAwake(m) ==
  LET m1 == [m EXCEPT !.latestState = "awake", !.state = "awake",
                      !.confidence = "0.25"]
  IN  IF ~m1.requireAck THEN resetAlarmState(m1) ELSE m1

handleLandmarksNull(m, d) ==
  LET m1 == [m EXCEPT !.missingFaceFrames = @ + 1]
      missing == m1.missingFaceFrames
      armed == m1.closure.isAbsenceAlarmArmed
      start == IF m1.absentStart = None THEN Some(0) ELSE m1.absentStart
      m2 == IF armed
              THEN [m1 EXCEPT !.absentStart = start,
                              !.absentCountdown =
                                 Some(Max(0, AbsenceTicks - Val(start)))]
            ELSE m1
      shouldSleep == AtLeastSec(missing, EYES_CLOSED_SLEEP_SEC)
      shouldNod == ~shouldSleep /\ missing * 10 >= EYES_CLOSED_NOD_DECISEC * FPS
  IN  IF armed /\ AtLeastSec(Val(start), ABSENCE_ALARM_SEC) /\ ~m2.requireAck
        THEN AbsenceCountdownAlarm(m2, d)
      ELSE IF m2.calibration.collecting
        THEN MissingWhileCalibrating(m2)
      ELSE LET m3 == [m2 EXCEPT !.ev.path = "missing"]
           IN  IF shouldSleep THEN MissingSleep(m3, d)
               ELSE IF shouldNod THEN MissingNod(m3, d)
               ELSE MissingAwake(m3)

(***************************************************************************)
(* handleLandmarks(landmarks): the fused path.  The fusion of the tracker  *)
(* outputs is an input here: in.state is best.state, in.warning the result *)
(* of getWarningForState on the same metrics.                              *)
(***************************************************************************)
\* warnings getWarningForState can give a noddingOff frame: two of different
\* categories (their messages share no first word)
NoddingWarnings == {"eyesClosed", "headTiltingBack"}

\* A sleeping frame has closed-eye seconds above 2, so its warning is eyesClosed.
FusedOutcomes ==
  {[state |-> "awake", warning |-> None]}
    \cup {[state |-> "noddingOff", warning |-> Some(k)] : k \in NoddingWarnings}
    \cup {[state |-> "sleeping", warning |-> Some("eyesClosed")]}

\* isNewWarningCategory: activeWarning is the value the closure captured
isNewWarningCategory(m, warning) ==
  \/ m.warningStart = None
  \/ /\ m.closure.activeWarning # None
     /\ ~Includes(WARNING_MESSAGES[warning],
                  FirstWord(WARNING_MESSAGES[Val(m.closure.activeWarning)]))
     /\ ~Includes(WARNING_MESSAGES[Val(m.closure.activeWarning)],
                  FirstWord(WARNING_MESSAGES[warning]))

\* the grace period of the running voice warning has expired
GraceExpired(m) ==
  m.warningStart # None /\ AtLeastMs(Val(m.warningStart), VOICE_GRACE_PERIOD_MS)

TierOf(s) == IF s = "sleeping" THEN "sleeping" ELSE "nodding"

BatchSizeOf(s) ==
  IF s = "sleeping" THEN SLEEPING_BATCH_SIZE ELSE NODDING_BATCH_SIZE

\* warning && !requireAckRef.current
VoiceWarningStep(m, in, d) ==
  LET w == Val(in.warning)
      isSleeping == in.state = "sleeping"
      m1 == IF isNewWarningCategory(m, w)
              THEN [m EXCEPT !.activeWarning = Some(w), !.warningStart = Some(0),
                             !.ev.spoke = TRUE]
            ELSE IF m.closure.activeWarning # Some(w)
              THEN [m EXCEPT !.activeWarning = Some(w), !.ev.spoke = TRUE]
            ELSE m
  IN  IF GraceExpired(m1)
        THEN IF ~m1.requireAck \/ m1.lastAlarmState # in.state
               THEN LET b == getAlarmBatch(m1, TierOf(in.state),
                                           BatchSizeOf(in.state))
                        c == assignNewChallenge(
                               b, IF isSleeping THEN Coin(d) ELSE None, d)
                    IN  [updateRequireAck(c, TRUE) EXCEPT
                           !.lastAlarmState = in.state]
             ELSE m1
      ELSE m1

\* A faulty AlreadyAlarmedStep: every sleeping frame counts as entering the
\* sleeping alarm, whatever lastAlarmStateRef holds.
AlreadyAlarmedStepRegenerating(m, in, d) ==
  IF in.state = "sleeping"
    THEN LET b == getAlarmBatch(m, "sleeping", SLEEPING_BATCH_SIZE)
             c == assignNewChallenge(b, Coin(d), d)
         IN  [updateRequireAck(c, TRUE) EXCEPT !.lastAlarmState = "sleeping"]
  ELSE IF Len(m.activeAlarms) = 0
    THEN getAlarmBatch(m, TierOf(in.state), BatchSizeOf(in.state))
  ELSE m

\* A faulty AlreadyAlarmedStep: the escalation to the sleeping tier is missing.
AlreadyAlarmedStepNoEscalation(m, in, d) ==
  IF Len(m.activeAlarms) = 0
    THEN getAlarmBatch(m, TierOf(in.state), BatchSizeOf(in.state))
  ELSE m

\* requireAckRef.current: already in alarm state
AlreadyAlarmedStep(m, in, d) ==
  LET isSleeping == in.state = "sleeping"
      enteringAlarm == m.lastAlarmState # in.state
  IN  IF enteringAlarm /\ isSleeping /\ m.lastAlarmState # "sleeping"
        THEN LET b == getAlarmBatch(m, "sleeping", SLEEPING_BATCH_SIZE)
                 c == assignNewChallenge(b, Coin(d), d)
             IN  [updateRequireAck(c, TRUE) EXCEPT !.lastAlarmState = "sleeping"]
      ELSE IF Len(m.activeAlarms) = 0
        THEN getAlarmBatch(m, TierOf(in.state), BatchSizeOf(in.state))
      ELSE m

\* the user is awake: reset warning state
AwakeStep(m) ==
  LET m1 == IF m.closure.activeWarning # None
              THEN [m EXCEPT !.activeWarning = None, !.warningStart = None]
            ELSE m
      m2 == IF ~m1.requireAck /\ Len(m1.activeAlarms) > 0
              THEN [updateActiveAlarms(m1, << >>) EXCEPT
                      !.lastAlarmState = "awake"]
            ELSE m1
      m3 == IF ~m2.requireAck /\ m2.alarmPhrase # None
              THEN updateChallenge(updateAlarmPhrase(m2, None),
                                   "phrase", None, None)
            ELSE m2
  IN  IF ~m3.requireAck THEN [m3 EXCEPT !.lastAlarmState = "awake"] ELSE m3

\* evidence fusion and escalation on a frame past calibration
FusedStep(m, in, d) ==
  LET m1 == [m EXCEPT !.latestState = in.state, !.ev.path = "fused"]
      m2 == IF in.state \in {"noddingOff", "sleeping"}
              THEN IF in.warning # None /\ ~m1.requireAck
                     THEN VoiceWarningStep(m1, in, d)
                   ELSE IF m1.requireAck THEN AlreadyAlarmedStep(m1, in, d)
                   ELSE m1
            ELSE AwakeStep(m1)
  IN  [m2 EXCEPT !.state = in.state, !.confidence = "fused"]

\* calibration is collecting: one more sample; TRUE iff it completes now
CalibrationCompletes(m) ==
  LET age == IF m.calibration.startAge = None THEN 0
             ELSE Val(m.calibration.startAge)
      samples == Min(m.calibration.samples + 1, MIN_CALIBRATION_FRAMES)
  IN  AtLeastMs(age, CALIBRATION_DURATION_MS) /\ samples >= MIN_CALIBRATION_FRAMES

CollectSample(m) ==
  [m EXCEPT !.calibration.startAge =
               IF @ = None THEN Some(0) ELSE @,
            !.calibration.samples = Min(@ + 1, MIN_CALIBRATION_FRAMES)]

\* activeBaselines of a frame past the calibration branch: the baselines the
\* handler captured ("calibrated"), or else the raw values of this very
\* frame ("frame"), or null while collecting ("none")
activeBaselines(m) ==
  IF m.closure.baselines THEN "calibrated"
  ELSE IF ~m.calibration.collecting THEN "frame"
  ELSE "none"

\* calibrationRef.current after the calibration branch of a frame with
\* landmarks
AfterCalibrationBranch(m) ==
  IF m.calibration.collecting /\ CalibrationCompletes(m)
    THEN [CollectSample(m) EXCEPT !.calibration.collecting = FALSE]
  ELSE IF m.calibration.collecting THEN CollectSample(m)
  ELSE m

handleLandmarksFace(m, in, d) ==
  LET m1 == [m EXCEPT !.missingFaceFrames = 0, !.absentStart = None,
                      !.absentCountdown = None]
  IN  IF m1.calibration.collecting
        THEN IF CalibrationCompletes(m1)
               THEN FusedStep([CollectSample(m1) EXCEPT
                                 !.baselines = TRUE,
                                 !.calibration.collecting = FALSE], in, d)
             ELSE LET m2 == [CollectSample(m1) EXCEPT
                               !.state = "awake", !.confidence = "0.15",
                               !.ev.path = "calibrating"]
                  IN  IF ~m2.requireAck THEN updateActiveAlarms(m2, << >>)
                      ELSE m2
      ELSE FusedStep(m1, in, d)

(***************************************************************************)
(* Session effects, rendering and the passage of time.                     *)
(***************************************************************************)
\* useEffect([isActive, resetAlarmState]) with isActive true
StartSessionEffect(m) ==
  resetAlarmState(
    [m EXCEPT !.isActive = TRUE,
              !.calibration = [collecting |-> TRUE, startAge |-> None,
                               samples |-> 0],
              !.baselines = FALSE])

\* the same effect with isActive false, then the tracking effect's inactive branch
StopSessionEffect(m) ==
  LET m1 == resetAlarmState(
              [m EXCEPT !.isActive = FALSE,
                        !.calibration = [collecting |-> FALSE,
                                         startAge |-> None, samples |-> 0],
                        !.baselines = FALSE])
  IN  resetAlarmState([m1 EXCEPT !.state = "awake", !.confidence = "0"])

\* what a handleLandmarks created now captures from the render
Capture(m) ==
  [activeWarning |-> m.activeWarning,
   isAbsenceAlarmArmed |-> m.isAbsenceAlarmArmed,
   baselines |-> m.baselines]

\* a dependency list that leaves isAbsenceAlarmArmed out
RenderUnawareOfDisarm(m) ==
  IF \/ m.isActive # isActive
     \/ m.baselines # baselines
    THEN [m EXCEPT !.closure = Capture(m)]
    ELSE m

\* React renders after the handler; the tracking effect runs again, and
\* handleLandmarks is created anew, only when one of its dependencies changed.
Render(m) ==
  IF \/ m.isActive # isActive
     \/ m.baselines # baselines
     \/ m.isAbsenceAlarmArmed # isAbsenceAlarmArmed
    THEN [m EXCEPT !.closure = Capture(m)]
    ELSE m

Older(age, gap, cap) ==
  IF age = None THEN None ELSE Some(Min(Val(age) + gap, cap))

\* const now = performance.now(): the frame comes gap ticks after the last one
Advance(m, gap) ==
  [m EXCEPT !.calibration.startAge = Older(@, gap, CalibrationTicks),
            !.absentStart = Older(@, gap, AbsenceTicks),
            !.warningStart = Older(@, gap, GraceTicks),
            !.ev.gap = gap]

CursorsInBound(m) ==
  (m.alarmCursor.nodding \div NODDING_BATCH_SIZE)
    + (m.alarmCursor.sleeping \div SLEEPING_BATCH_SIZE) <= MaxBatches

(***************************************************************************)
(* History variables.                                                      *)
(***************************************************************************)
IsRisk(s) == s \in {"noddingOff", "sleeping"}

\* the step is a frame that took the fused path and classified a risk state
FusedRiskFrame(n) ==
  n.ev.op = "frame" /\ n.ev.path = "fused" /\ IsRisk(n.latestState)

NextSessions(n) == IF n.ev.op = "start" THEN sessions + 1 ELSE sessions

NextDisarmedInSession(n) ==
  IF n.ev.op \in {"start", "stop"} THEN FALSE
  ELSE IF n.ev.op = "disarm" THEN disarmedInSession \/ isActive
  ELSE disarmedInSession

\* A run of null frames that began in a calibrated session, armed, with nothing
\* outstanding, and whose frames all came one frame interval apart.
NextNullRun(n) ==
  IF n.ev.op = "frame" /\ n.missingFaceFrames > 0
    THEN IF missingFaceFrames = 0
           THEN LET ok == /\ isActive /\ ~calibration.collecting
                          /\ closure.isAbsenceAlarmArmed
                          /\ ~requireAck
                          /\ activeAlarms = << >>
                IN  [ok |-> ok, batches |-> IF ok THEN n.ev.batches ELSE << >>]
         ELSE IF nullRun.ok /\ n.ev.gap = 1
           THEN [nullRun EXCEPT !.batches = @ \o n.ev.batches]
         ELSE [ok |-> FALSE, batches |-> << >>]
  ELSE [ok |-> FALSE, batches |-> << >>]

\* The current run of risk frames: fused risk frames that no fused awake
\* frame interrupts.
\*   spoken: age of the first voice warning spoken in it
\*   timed:  the running grace timer was started in it, every frame since
\*           was a fused risk frame, and none found an acknowledgment required
NoRun == [spoken |-> None, timed |-> FALSE]

NextRiskRun(n) ==
  IF n.ev.op \in {"start", "stop"} THEN NoRun
  ELSE IF n.ev.op # "frame" THEN riskRun
  ELSE IF FusedRiskFrame(n)
    THEN [spoken |-> IF riskRun.spoken # None
                       THEN Older(riskRun.spoken, n.ev.gap, GraceTicks)
                     ELSE IF n.ev.spoke THEN Some(0) ELSE None,
          timed  |-> /\ ~n.ev.preAck
                     /\ \/ n.warningStart = Some(0)
                        \/ riskRun.timed /\ n.warningStart # None]
  ELSE IF n.ev.path = "missing"
    THEN [spoken |-> Older(riskRun.spoken, n.ev.gap, GraceTicks),
          timed  |-> FALSE]
  ELSE NoRun

NoCalRun == [frames |-> 0, age |-> None, interrupted |-> FALSE]

\* The run of consecutive frames with landmarks seen while calibration was
\* collecting: how many, the age of the first, and whether a frame without
\* landmarks came earlier in the collection.  It is followed up to the frame
\* that ends the collection and forgotten after it.
NextCalRun(n) ==
  IF ~calibration.collecting THEN NoCalRun
  ELSE IF n.ev.op = "frame"
    THEN IF n.missingFaceFrames > 0
           THEN [frames |-> 0, age |-> None, interrupted |-> TRUE]
         ELSE [calRun EXCEPT
                 !.frames = Min(@ + 1, MIN_CALIBRATION_FRAMES),
                 !.age = IF @ = None THEN Some(0)
                         ELSE Older(@, n.ev.gap, CalibrationTicks)]
  ELSE IF n.ev.op = "stop" THEN NoCalRun
  ELSE calRun

Install(n) ==
  /\ isActive' = n.isActive
  /\ calibration' = n.calibration
  /\ baselines' = n.baselines
  /\ state' = n.state
  /\ confidence' = n.confidence
  /\ activeAlarms' = n.activeAlarms
  /\ alarmPhrase' = n.alarmPhrase
  /\ requireAck' = n.requireAck
  /\ challengePrompt' = n.challengePrompt
  /\ challengeType' = n.challengeType
  /\ challengeAnswer' = n.challengeAnswer
  /\ latestState' = n.latestState
  /\ lastAlarmState' = n.lastAlarmState
  /\ missingFaceFrames' = n.missingFaceFrames
  /\ alarmCursor' = n.alarmCursor
  /\ absentCountdown' = n.absentCountdown
  /\ isAbsenceAlarmArmed' = n.isAbsenceAlarmArmed
  /\ absentStart' = n.absentStart
  /\ activeWarning' = n.activeWarning
  /\ warningStart' = n.warningStart
  /\ closure' = n.closure
  /\ ev' = n.ev
  /\ disarmedInSession' = NextDisarmedInSession(n)
  /\ nullRun' = NextNullRun(n)
  /\ riskRun' = NextRiskRun(n)
  /\ sessions' = NextSessions(n)
  /\ calRun' = NextCalRun(n)
  /\ UNCHANGED parts

(***************************************************************************)
(* Eye closure: closedFramesRef and the eyesClosedSec a fused frame        *)
(* reports.  EAR values are in thousandths; durations are kept as a number *)
(* of frames, i.e. in units of 1/30 s at the source's 30 frames per second.*)
(***************************************************************************)
\* BASE_EAR_THRESHOLD = 0.20, in thousandths
BASE_EAR_THRESHOLD_MILLI == 200

MIN_CLOSED_FRAMES == 15

\* Longest run of closed-eye frames explored.
MaxClosedRun == 24

\* currentEar of a frame, in thousandths
EarSamples == {100, 149, 150, 239, 240, 300}

\* activeBaselines.ear, in thousandths
EarBaselines == {200, 320}

Abs(x) == IF x < 0 THEN -x ELSE x

\* four times Math.max(activeBaselines.ear * 0.75, BASE_EAR_THRESHOLD * 0.75)
effectiveEarThreshold4(baselineEar) ==
  Max(3 * baselineEar, 3 * BASE_EAR_THRESHOLD_MILLI)

\* currentEar < effectiveEarThreshold
EarBelowThreshold(ear, baselineEar) ==
  4 * ear < effectiveEarThreshold4(baselineEar)

\* a faulty counter: an open-eye frame does not reset it
NextClosedFramesNoReset(n, below) == IF below THEN n + 1 ELSE n

\* closedFramesRef.current after the frame
NextClosedFrames(n, below) == IF below THEN n + 1 ELSE 0

\* closedSec * FPS: the reported duration in frames
ClosedSecFrames(n) ==
  IF n >= MIN_CLOSED_FRAMES THEN n - MIN_CLOSED_FRAMES ELSE 0

EyesInit(b) ==
  [baselineEar |-> b, closedFrames |-> 0, closedSecFrames |-> 0,
   ear |-> None, run |-> 0]

\* lines 954-965 of a fused frame; run is the history of the frames seen: the
\* length of the current run of frames with EAR below the threshold
EyeClosureStep(e, ear) ==
  LET below == EarBelowThreshold(ear, e.baselineEar)
      n == NextClosedFrames(e.closedFrames, below)
  IN  [e EXCEPT !.closedFrames = n,
                !.closedSecFrames = ClosedSecFrames(n),
                !.ear = Some(ear),
                !.run = IF below THEN @ + 1 ELSE 0]

(***************************************************************************)
(* Snapshot emission: lastEmitTimeRef and pushAttention.  Times are in ms. *)
(***************************************************************************)
EMIT_INTERVAL_MS == 300

\* Date.now() at the first frame of the session, and the last time explored
ClockStartMs == 1000

MaxEmitClock == 2000

\* time between two frames, in ms
FrameGapsMs == {100, 299, 300}

\* newConfidence of a fused frame, in hundredths
ConfidenceSamples == {5, 99}

EmitterInit ==
  [now |-> ClockStartMs, lastEmit |-> 0, snapshot |-> None, prevT |-> None,
   emitted |-> FALSE, frame |-> None, skipped |-> FALSE,
   afterSkip |-> FALSE]

\* a faulty test: every fused frame emits
EmitDueAlways(now, lastEmit) == now >= lastEmit

\* now - lastEmitTimeRef.current >= EMIT_INTERVAL_MS
EmitDue(now, lastEmit) == now - lastEmit >= EMIT_INTERVAL_MS

\* the end of a fused frame: best.state and newConfidence are the frame's;
\* skipped and afterSkip are history: a fused frame since the last snapshot
\* emitted nothing
EmitSnapshotStep(e, now, st, conf) ==
  IF EmitDue(now, e.lastEmit)
    THEN [e EXCEPT !.now = now, !.lastEmit = now,
                   !.snapshot = Some([t |-> now, state |-> st,
                                      confidence |-> conf]),
                   !.prevT = IF e.snapshot = None THEN None
                             ELSE Some(Val(e.snapshot).t),
                   !.emitted = TRUE,
                   !.frame = Some([state |-> st, confidence |-> conf]),
                   !.afterSkip = e.skipped,
                   !.skipped = FALSE]
    ELSE [e EXCEPT !.now = now, !.emitted = FALSE,
                   !.frame = Some([state |-> st, confidence |-> conf]),
                   !.skipped = TRUE]

\* a frame that returns before the emission (no landmarks, or calibrating)
NoSnapshotStep(e, now) ==
  [e EXCEPT !.now = now, !.emitted = FALSE, !.frame = None]

(***************************************************************************)
(* Trackers: HeadNodDetector.update, isHeadTilted, PostureTracker.update.  *)
(* Angles are in degrees, vertical distances in hundredths, times in ms.   *)
(***************************************************************************)
HEAD_TILT_THRESHOLD == 30

HEAD_PITCH_THRESHOLD == 10

HEAD_PITCH_BACK_THRESHOLD == 12

FORWARD_HYSTERESIS == 3

BACKWARD_HYSTERESIS == 3

SLOUCH_MS == 3000

\* Length of the pitch window: HISTORY_SIZE of the source (18) scaled down.
NodWindow == 3

HISTORY_SIZE == NodWindow

\* nods counted in a run of the model
MaxNodCount == 2

\* slouch durations are followed up to this many ms
MaxSlouchMs == 4000

PitchSamples == {-13, 0, 8, 12}

TiltSamples == {-31, 29, 31}

\* postureVertical of a pose, None for no pose
VerticalSamples == {70, 100}

\* setBaseline(postureVertical, ...) at calibration, None if never called
VerticalBaselines == {None, Some(100)}

PoseGapsMs == {1000, 2500}

RECURSIVE SeqMax(_)
SeqMax(s) ==
  IF Len(s) = 1 THEN s[1] ELSE Max(s[1], SeqMax(Tail(s)))

RECURSIVE SeqMin(_)
SeqMin(s) ==
  IF Len(s) = 1 THEN s[1] ELSE Min(s[1], SeqMin(Tail(s)))

TrackersInit ==
  [pitchHistory |-> << >>, nodCount |-> 0, wasForward |-> FALSE,
   wasBackward |-> FALSE,
   nod |-> [isForwardNodding |-> FALSE, isBackwardTilting |-> FALSE,
            windowMax |-> 0, windowMin |-> 0],
   pitch |-> 0, tilt |-> 0, isTilted |-> FALSE,
   baselineVertical |-> None, slouchAge |-> None, slouchRun |-> None,
   posture |-> [isPresent |-> TRUE, isSlouchingNow |-> FALSE,
                isSlouched |-> FALSE, slouchDuration |-> 0],
   prev |-> [isForwardNodding |-> FALSE, pitch |-> 0, isTilted |-> FALSE,
             tilt |-> 0, isSlouched |-> FALSE, isSlouchingNow |-> FALSE],
   op |-> "init"]

\* an update that arms the detector again as soon as the window is not forward
HeadNodUpdateEager(t, adjustedPitch, forwardThreshold, backwardThreshold) ==
  LET pushed == Append(t.pitchHistory, adjustedPitch)
      history == IF Len(pushed) > HISTORY_SIZE THEN Tail(pushed) ELSE pushed
      windowMax == SeqMax(history)
      windowMin == SeqMin(history)
      isForward == windowMax > forwardThreshold
      isBackward == windowMin < -backwardThreshold
      counted == isForward /\ ~t.wasForward
  IN  [t EXCEPT !.pitchHistory = history,
                !.nodCount = IF counted THEN @ + 1 ELSE @,
                !.wasForward = isForward,
                !.wasBackward = isBackward,
                !.pitch = adjustedPitch,
                !.nod = [isForwardNodding |-> isForward,
                         isBackwardTilting |-> isBackward,
                         windowMax |-> windowMax, windowMin |-> windowMin]]

\* HeadNodDetector.update(adjustedPitch, forwardThreshold, backwardThreshold)
HeadNodUpdate(t, adjustedPitch, forwardThreshold, backwardThreshold) ==
  LET pushed == Append(t.pitchHistory, adjustedPitch)
      history == IF Len(pushed) > HISTORY_SIZE THEN Tail(pushed) ELSE pushed
      windowMax == SeqMax(history)
      windowMin == SeqMin(history)
      isForward == windowMax > forwardThreshold
      isBackward == windowMin < -backwardThreshold
      counted == isForward /\ ~t.wasForward
      wasForward ==
        IF counted THEN TRUE
        ELSE IF ~isForward /\ windowMax < forwardThreshold - FORWARD_HYSTERESIS
          THEN FALSE
        ELSE t.wasForward
      wasBackward ==
        IF isBackward /\ ~t.wasBackward THEN TRUE
        ELSE IF /\ ~isBackward
                /\ windowMin > -(backwardThreshold - BACKWARD_HYSTERESIS)
          THEN FALSE
        ELSE t.wasBackward
  IN  [t EXCEPT !.pitchHistory = history,
                !.nodCount = IF counted THEN @ + 1 ELSE @,
                !.wasForward = wasForward,
                !.wasBackward = wasBackward,
                !.pitch = adjustedPitch,
                !.nod = [isForwardNodding |-> isForward,
                         isBackwardTilting |-> isBackward,
                         windowMax |-> windowMax, windowMin |-> windowMin]]

\* isHeadTilted(tiltAngle, threshold)
isHeadTilted(tiltAngle, threshold) == Abs(tiltAngle) > threshold

\* isSlouchedPosture(verticalDistance, baseline): below 75% of the baseline
isSlouchedPosture(verticalDistance, baseline) ==
  4 * verticalDistance < 3 * baseline

\* what the flags and raw values were before this frame
Remember(t) ==
  [t EXCEPT !.prev = [isForwardNodding |-> t.nod.isForwardNodding,
                      pitch |-> t.pitch,
                      isTilted |-> t.isTilted, tilt |-> t.tilt,
                      isSlouched |-> t.posture.isSlouched,
                      isSlouchingNow |-> t.posture.isSlouchingNow]]

\* the tracker part of a fused frame: lines 898-906
TrackFaceStep(t, pitch, tilt) ==
  LET t1 == HeadNodUpdate(Remember(t), pitch, HEAD_PITCH_THRESHOLD,
                          HEAD_PITCH_BACK_THRESHOLD)
  IN  [t1 EXCEPT !.tilt = tilt,
                 !.isTilted = isHeadTilted(tilt, HEAD_TILT_THRESHOLD),
                 !.op = "face"]

\* history: ms since the first of the pose updates, each of them with a pose
\* and slouching, that end with this one
SlouchRunAfter(run, gap) ==
  IF run = None THEN Some(0) ELSE Some(Min(Val(run) + gap, MaxSlouchMs))

\* PostureTracker.update(landmarks, timestamp), gap ms after the last update;
\* vertical is None when there are no pose landmarks
PostureUpdate(t, vertical, gap) ==
  LET t0 == Remember(t)
      age == IF t0.slouchAge = None THEN None
             ELSE Some(Min(Val(t0.slouchAge) + gap, MaxSlouchMs))
  IN  IF vertical = None
        THEN [t0 EXCEPT !.slouchAge = age,
                        !.slouchRun = None,
                        !.posture = [isPresent |-> FALSE,
                                     isSlouchingNow |-> FALSE,
                                     isSlouched |-> FALSE,
                                     slouchDuration |-> 0],
                        !.op = "pose"]
      ELSE
        LET baseline == IF t0.baselineVertical = None THEN Val(vertical)
                        ELSE Val(t0.baselineVertical)
            isSlouchingNow == isSlouchedPosture(Val(vertical), baseline)
            start == IF isSlouchingNow
                       THEN (IF age = None THEN Some(0) ELSE age)
                     ELSE None
            slouchDuration == IF start = None THEN 0 ELSE Val(start)
        IN  [t0 EXCEPT !.slouchAge = start,
                       !.slouchRun = IF isSlouchingNow
                                       THEN SlouchRunAfter(t0.slouchRun, gap)
                                     ELSE None,
                       !.posture = [isPresent |-> TRUE,
                                    isSlouchingNow |-> isSlouchingNow,
                                    isSlouched |-> slouchDuration > SLOUCH_MS,
                                    slouchDuration |-> slouchDuration],
                       !.op = "pose"]

(***************************************************************************)
(* Evidence fusion of a fused frame (handleLandmarks, after the trackers). *)
(* Evidence is counted in units of 1/300, so that 0.05, over / 2 at 30     *)
(* frames per second and the 0.8 discount are all whole numbers; closed    *)
(* time is counted in frames at the camera rate.                           *)
(***************************************************************************)
\* hasLeftSeat: PRESENCE_THRESHOLD = 0.4, in hundredths
PRESENCE_THRESHOLD == 40

\* an evidence amount given in hundredths
P(hundredths) == 3 * hundredths

One == P(100)

\* closedFramesRef.current on the frame
ClosedFrameSamples == {0, 15, 45, 61, 75, 106, 119, 120, 136, 165, 195, 225, 240}

\* (windowMax, windowMin) of the nod detector
PitchWindowSamples == {<<0, 0>>, <<12, 0>>, <<15, 0>>, <<0, -13>>, <<15, -13>>}

\* (isYawning, yawnCount) of the yawn detector
YawnSamples == {<<FALSE, 0>>, <<TRUE, 0>>, <<FALSE, 2>>}

\* (isLookingAway, lookAwayDuration in seconds) of the gaze tracker
GazeSamples == {<<FALSE, 0>>, <<TRUE, 6>>}

\* bodyPresence in hundredths
BodyPresenceSamples == {30, 45, 80}

\* (isSlouchingNow, slouchDuration in ms)
SlouchSamples == {<<FALSE, 0>>, <<TRUE, 0>>, <<TRUE, 6000>>, <<TRUE, 12000>>}

\* (leanDirection, leanDuration in ms)
LeanSamples ==
  {<<"neutral", 0>>, <<"forward", 4000>>, <<"backward", 1000>>,
   <<"backward", 6000>>, <<"backward", 16000>>}

\* awayDuration in ms of a missing pose
AwaySamples == {0, 12000}

\* hasLeftSeat(presenceScore)
hasLeftSeat(presenceScore) == presenceScore < PRESENCE_THRESHOLD

\* PostureTracker.update with pose landmarks: the returned record
PresentPosture(bodyPresence, slouch, lean) ==
  [isPresent |-> ~hasLeftSeat(bodyPresence),
   isSlouchingNow |-> slouch[1],
   isSlouched |-> slouch[2] > SLOUCH_MS,
   slouchDuration |-> slouch[2],
   awayDuration |-> 0,
   isLeaning |-> lean[1] # "neutral",
   leanDirection |-> lean[1],
   leanDuration |-> lean[2],
   bodyPresence |-> bodyPresence]

\* PostureTracker.update(null, timestamp): the returned record
AbsentPosture(awayDuration) ==
  [isPresent |-> FALSE, isSlouchingNow |-> FALSE, isSlouched |-> FALSE,
   slouchDuration |-> 0, awayDuration |-> awayDuration, isLeaning |-> FALSE,
   leanDirection |-> "neutral", leanDuration |-> 0, bodyPresence |-> 0]

\* latestPostureStateRef.current: null before the first pose callback
PostureSamples ==
  {None}
  \cup {Some(AbsentPosture(a)) : a \in AwaySamples}
  \cup {Some(PresentPosture(b, s, l)) :
          b \in BodyPresenceSamples, s \in SlouchSamples, l \in LeanSamples}

\* the tracker outputs of one frame
TrackerOutput(closedFrames, window, yawn, gaze, distance, tilted, posture) ==
  [closedFrames |-> closedFrames,
   windowMax |-> window[1], windowMin |-> window[2],
   isForwardNodding |-> window[1] > HEAD_PITCH_THRESHOLD,
   isBackwardTilting |-> window[2] < -HEAD_PITCH_BACK_THRESHOLD,
   isYawning |-> yawn[1], yawnCount |-> yawn[2],
   isLookingAway |-> gaze[1], lookAwayDuration |-> gaze[2],
   isAbnormalDistance |-> distance, isTilted |-> tilted,
   posture |-> posture]

\* the tracker outputs explored, with the eyes open
TrackerOutputs ==
  {TrackerOutput(0, w, y, g, d, t, p) :
     w \in PitchWindowSamples, y \in YawnSamples, g \in GazeSamples,
     d \in BOOLEAN, t \in BOOLEAN, p \in PostureSamples}

\* isDrowsyYawnRate(yawnCount)
isDrowsyYawnRate(yawnCount) == yawnCount >= 2

\* eyesClosedDuration >= s, for s in tenths of a second and the duration in
\* frames
DurationAtLeast(frames, decisec) == frames * 10 >= decisec * SOURCE_FPS

DurationOver(frames, decisec) == frames * 10 > decisec * SOURCE_FPS

\* A faulty EyeSleepEvidence: the evidence decays with the time over the
\* threshold.
EyeSleepEvidenceDecaying(frames) ==
  IF DurationAtLeast(frames, 10 * EYES_CLOSED_SLEEP_SEC)
    THEN P(200)
         - (300 * (frames - EYES_CLOSED_SLEEP_SEC * SOURCE_FPS)) \div SOURCE_FPS
  ELSE 0

\* sleepingEvidence from the closed eyes alone: 2.0 + Math.min(over / 2, 1.0)
EyeSleepEvidence(frames) ==
  IF DurationAtLeast(frames, 10 * EYES_CLOSED_SLEEP_SEC)
    THEN P(200)
         + Min((300 * (frames - EYES_CLOSED_SLEEP_SEC * SOURCE_FPS))
                 \div (2 * SOURCE_FPS), One)
  ELSE 0

\* noddingEvidence from the closed eyes alone
EyeNodEvidence(frames) ==
  IF DurationAtLeast(frames, 10 * EYES_CLOSED_SLEEP_SEC) THEN 0
  ELSE IF DurationAtLeast(frames, EYES_CLOSED_NOD_DECISEC) THEN P(150)
  ELSE IF DurationAtLeast(frames, 20) THEN P(80)
  ELSE IF DurationAtLeast(frames, 10) THEN P(30)
  ELSE 0

\* A faulty EyeAwakeEvidence: closed eyes never take the awake evidence away.
EyeAwakeEvidenceKept(awake, frames) ==
  IF ~DurationAtLeast(frames, 10) THEN awake + P(30)
  ELSE IF ~DurationAtLeast(frames, 20) THEN awake + P(5)
  ELSE awake

\* "Reduce awake evidence significantly when eyes are closed"
EyeAwakeEvidence(awake, frames) ==
  IF ~DurationAtLeast(frames, 10) THEN awake + P(30)
  ELSE IF ~DurationAtLeast(frames, 20) THEN awake + P(5)
  ELSE IF ~DurationAtLeast(frames, EYES_CLOSED_NOD_DECISEC) THEN 0
  ELSE 0

\* v if the condition holds
When(cond, v) == IF cond THEN v ELSE 0

\* evidence of the face trackers, before the posture
FaceEvidence(in, frames) ==
  LET away == in.isLookingAway /\ in.lookAwayDuration > 5
      sleeping ==
        EyeSleepEvidence(frames)
        + When(in.isBackwardTilting /\ DurationAtLeast(frames, 40), P(20))
      nodding ==
        EyeNodEvidence(frames)
        + When(in.isForwardNodding, P(30))
        + When(in.windowMax > HEAD_PITCH_THRESHOLD + 4, P(25))
        + When(in.isBackwardTilting, P(20))
        + When(in.isYawning, P(15))
        + When(isDrowsyYawnRate(in.yawnCount), P(10))
        + When(away, P(15))
        + When(in.isAbnormalDistance, P(10))
      awake ==
        P(30)
        + When(~away, P(5))
        + When(~in.isTilted, P(10))
        + When(~in.isForwardNodding /\ ~in.isBackwardTilting, P(20))
        + When(/\ Abs(in.windowMax) < HEAD_PITCH_THRESHOLD
               /\ Abs(in.windowMin) < HEAD_PITCH_BACK_THRESHOLD, P(5))
        + When(~in.isYawning /\ in.yawnCount < 2, P(5))
  IN  [sleeping |-> sleeping, nodding |-> nodding,
       awake |-> EyeAwakeEvidence(awake, frames)]

\* "POSTURE EVIDENCE INTEGRATION"; every fused frame has face landmarks
PostureEvidence(e, p, frames, isYawning) ==
  LET sleeping ==
        e.sleeping
        + When(/\ p.leanDirection = "backward" /\ p.leanDuration > 5000
               /\ DurationOver(frames, 30), P(40))
        + When(~p.isPresent /\ p.awayDuration > 10000, P(50))
        + When(/\ p.isSlouched /\ p.leanDirection = "backward"
               /\ DurationOver(frames, 40), P(30))
      nodding ==
        e.nodding
        + When(p.isSlouched,
               IF p.slouchDuration > 10000 THEN P(30)
               ELSE IF p.slouchDuration > 5000 THEN P(20) ELSE 0)
        + When(/\ p.leanDirection = "forward" /\ p.leanDuration > 3000
               /\ DurationOver(frames, 15), P(25))
        + When(/\ p.leanDirection = "backward" /\ p.leanDuration > 5000
               /\ p.leanDuration < 15000, P(15))
        + When(p.isLeaning /\ isYawning, P(10))
      awake ==
        e.awake
        + When(~p.isSlouched /\ ~p.isLeaning /\ p.isPresent, P(25))
        + When(p.isPresent /\ p.bodyPresence > 70 /\ ~p.isSlouched, P(15))
        + When(/\ ~p.isSlouchingNow /\ p.slouchDuration = 0
               /\ p.leanDirection = "neutral", P(10))
      uncertain == p.bodyPresence < 50
      Scaled(x) == IF uncertain THEN (x * 4) \div 5 ELSE x
  IN  [sleeping |-> Scaled(sleeping), nodding |-> Scaled(nodding),
       awake |-> Scaled(awake)]

\* A faulty Clamp: the ceiling of 1 is missing.
ClampFloorOnly(lo, x) == Max(lo, x)

\* Math.min(1, Math.max(lo, x))
Clamp(lo, x) == Min(One, Max(lo, x))

\* evidence / totalEvidence as a fraction, the fallback if the total is 0
Prob(evidence, total, fallback) ==
  IF total > 0 THEN [num |-> evidence, den |-> total]
  ELSE [num |-> fallback, den |-> 1]

\* b.prob - a.prob <= 0 in the comparator of the sort
ProbAtLeast(p, q) == p.num * q.den >= q.num * p.den

\* ranked[0].state of the stable sort by descending probability
BestState(awakeProb, noddingProb, sleepingProb) ==
  IF ProbAtLeast(awakeProb, noddingProb) /\ ProbAtLeast(awakeProb, sleepingProb)
    THEN "awake"
  ELSE IF ProbAtLeast(noddingProb, sleepingProb) THEN "noddingOff"
  ELSE "sleeping"

\* the ranked array: the three states sorted by descending probability, by a
\* stable sort (equal probabilities keep the order awake, noddingOff, sleeping)
Ranked(awakeProb, noddingProb, sleepingProb) ==
  LET unsorted == << [state |-> "awake", prob |-> awakeProb],
                     [state |-> "noddingOff", prob |-> noddingProb],
                     [state |-> "sleeping", prob |-> sleepingProb] >>
      Before(j, i) ==
        \/ ~ProbAtLeast(unsorted[i].prob, unsorted[j].prob)
        \/ j < i /\ ProbAtLeast(unsorted[j].prob, unsorted[i].prob)
      place(i) == 1 + Cardinality({j \in 1..3 : j # i /\ Before(j, i)})
  IN  [k \in 1..3 |-> unsorted[CHOOSE i \in 1..3 : place(i) = k]]

RECURSIVE GCD(_, _)
GCD(a, b) == IF b = 0 THEN a ELSE GCD(b, a % b)

\* the fraction in lowest terms (its numerator is not negative)
Lowest(x) ==
  LET g == GCD(x.num, x.den)
  IN  [num |-> x.num \div g, den |-> x.den \div g]

\* p + (p - q) * k / 2 for fractions p >= q
PlusHalfMargins(p, q, k) ==
  LET a == Lowest(p)
      b == Lowest(q)
      c == GCD(a.den, b.den)
  IN  Lowest([num |-> (2 + k) * a.num * (b.den \div c)
                        - k * b.num * (a.den \div c),
              den |-> 2 * a.den * (b.den \div c)])

\* x clamped to [lo, hi], all three fractions
ClampFraction(lo, hi, x) ==
  IF x.num * lo.den < lo.num * x.den THEN lo
  ELSE IF x.num * hi.den > hi.num * x.den THEN hi
  ELSE x

\* A faulty newConfidence: the whole margin is added.
newConfidenceFullMargin(best, second) ==
  ClampFraction([num |-> 5, den |-> 100], [num |-> 99, den |-> 100],
                PlusHalfMargins(best, second, 2))

\* Math.min(0.99, Math.max(0.05, best.prob + confidenceMargin * 0.5))
newConfidence(best, second) ==
  ClampFraction([num |-> 5, den |-> 100], [num |-> 99, den |-> 100],
                PlusHalfMargins(best, second, 1))

\* the fusion of one frame, lines 960-1142
Fuse(in) ==
  LET frames == ClosedSecFrames(in.closedFrames)
      face == FaceEvidence(in, frames)
      all == IF in.posture = None THEN face
             ELSE PostureEvidence(face, Val(in.posture), frames, in.isYawning)
      sleepingEvidence == Clamp(0, all.sleeping)
      noddingEvidence == Clamp(0, all.nodding)
      awakeEvidence == Clamp(P(5), all.awake)
      totalEvidence == sleepingEvidence + noddingEvidence + awakeEvidence
      sleepingProb == Prob(sleepingEvidence, totalEvidence, 0)
      noddingProb == Prob(noddingEvidence, totalEvidence, 0)
      awakeProb == Prob(awakeEvidence, totalEvidence, 1)
      ranked == Ranked(awakeProb, noddingProb, sleepingProb)
  IN  [eyesClosedFrames |-> frames,
       sleepingEvidence |-> sleepingEvidence,
       noddingEvidence |-> noddingEvidence,
       awakeEvidence |-> awakeEvidence,
       totalEvidence |-> totalEvidence,
       sleepingProb |-> sleepingProb, noddingProb |-> noddingProb,
       awakeProb |-> awakeProb,
       confidence |-> newConfidence(ranked[1].prob, ranked[2].prob),
       state |-> BestState(awakeProb, noddingProb, sleepingProb)]

\* before the first fused frame of the tracker outputs
FusionStart(in) == [in |-> in, out |-> None]

FusionInit ==
  FusionStart(TrackerOutput(0, <<0, 0>>, <<FALSE, 0>>, <<FALSE, 0>>, FALSE,
                            FALSE, None))

\* a fused frame on the outputs in, closed frames n
FuseStep(f, n) ==
  LET in == [f.in EXCEPT !.closedFrames = n]
  IN  [in |-> in, out |-> Some(Fuse(in))]

(***************************************************************************)
(* Inputs of silenceAlarm.                                                 *)
(***************************************************************************)
ToLowerChar(c) ==
  IF \E i \in 1..26 : UpperLetters[i] = c
    THEN LowerLetters[CHOOSE i \in 1..26 : UpperLetters[i] = c]
    ELSE c

ToLowerCase(s) == [i \in 1..Len(s) |-> ToLowerChar(s[i])]

Padded(s) == <<" ">> \o s \o <<" ">>

\* what the generators can have produced: phrases and answers
ExpectedAnswers ==
  UNION {{generateAlarmPhrase(k), generateMathChallenge(k).answer,
          generateTriviaChallenge(k).answer} : k \in 1..NumDraws}

\* each expected answer as is, in the other letter case, and padded with blanks
SilenceInputs ==
  ExpectedAnswers
    \cup {ToLowerCase(s) : s \in ExpectedAnswers}
    \cup {ToUpperCase(s) : s \in ExpectedAnswers}
    \cup {Padded(s) : s \in ExpectedAnswers}
    \cup {<< >>}

\* The random values matter only to a handler that creates a challenge.
DrawsOf(n) == IF n.ev.challenges = 0 THEN {DefaultDraw} ELSE Draws

(***************************************************************************)
(* Voice warnings (voiceWarnings.ts): speakWarning, cancelVoiceWarning and  *)
(* the callbacks of the utterances it hands to the speech synthesis.  Time  *)
(* is counted in ticks of DEBOUNCE_DELAY; the failsafe of an utterance      *)
(* fires FailsafeTicks after the call that created it.                      *)
(***************************************************************************)
\* DEBOUNCE_DELAY, ms
DEBOUNCE_DELAY == 500

\* the delay of the failsafe timeout, ms
FAILSAFE_MS == 2000

\* speechFailureCount >= FAILURE_LIMIT switches to the tones
FAILURE_LIMIT == 2

FailsafeTicks == FAILSAFE_MS \div DEBOUNCE_DELAY

\* utterances handed to the speech synthesis and not yet ended
MaxUtterances == 2

\* speechFailureCount is followed up to this value
MaxFailures == 3

\* messages passed to speakWarning
SpokenMessages == {"eyesClosing", "headNodding"}

\* what the last operation on the module did:
\*   effect: "debounced", "tone", "skipped" (already speaking), "speak"
\*   due:    before it, the failure count had reached the limit by a failure
\*           and no call had passed the debounce since
\*   fallback, count: useFallbackAudio and speechFailureCount before it
VoiceEvent(op, effect, v) ==
  [op |-> op, effect |-> effect, due |-> v.due,
   fallback |-> v.useFallbackAudio, count |-> v.speechFailureCount]

\* an utterance: started (onstart has fired), failsafe (the timeout is
\* pending), age in ticks since the call
VoiceInit ==
  [lastSpokenMessage |-> None, lastSpokenAge |-> 1, isSpeaking |-> FALSE,
   useFallbackAudio |-> FALSE, speechFailureCount |-> 0,
   utterances |-> << >>, due |-> FALSE,
   ev |-> [op |-> "init", effect |-> "none", due |-> FALSE,
           fallback |-> FALSE, count |-> 0]]

\* speechFailureCount++
CountFailure(v) ==
  [v EXCEPT !.speechFailureCount = Min(@ + 1, MaxFailures),
            !.due = @ \/ ( /\ v.speechFailureCount + 1 >= FAILURE_LIMIT
                           /\ ~v.useFallbackAudio )]

\* sequence s without its i-th element
Without(s, i) == SubSeq(s, 1, i - 1) \o SubSeq(s, i + 1, Len(s))

\* speakWarning(message, priority) in a browser (initSpeech() is not null);
\* threw: speech.speak(utterance) throws
speakWarning(v, message, threw) ==
  LET e(effect) == VoiceEvent("speak", effect, v)
  IN  IF v.lastSpokenMessage = Some(message) /\ v.lastSpokenAge = 0
        THEN [v EXCEPT !.ev = e("debounced")]
      ELSE
        LET v1 == [v EXCEPT !.lastSpokenMessage = Some(message),
                            !.lastSpokenAge = 0, !.due = FALSE]
        IN  IF v1.useFallbackAudio \/ v1.speechFailureCount >= FAILURE_LIMIT
              THEN [v1 EXCEPT !.useFallbackAudio = TRUE, !.ev = e("tone")]
            ELSE IF v1.isSpeaking THEN [v1 EXCEPT !.ev = e("skipped")]
            ELSE IF threw
              THEN [v1 EXCEPT !.isSpeaking = FALSE, !.ev = e("speak")]
            ELSE [v1 EXCEPT
                    !.utterances = Append(@, [started |-> FALSE,
                                              failsafe |-> TRUE, age |-> 0]),
                    !.ev = e("speak")]

\* cancelVoiceWarning(): the utterances cancelled end by their own callbacks
cancelVoiceWarning(v) ==
  [v EXCEPT !.lastSpokenMessage = None, !.lastSpokenAge = 1,
            !.ev = VoiceEvent("cancel", "none", v)]

\* utterance.onstart of the i-th utterance
UtteranceStart(v, i) ==
  [v EXCEPT !.utterances[i].started = TRUE,
            !.utterances[i].failsafe = FALSE,
            !.isSpeaking = TRUE,
            !.speechFailureCount = 0,
            !.ev = VoiceEvent("onstart", "none", v)]

\* utterance.onerror of the i-th utterance
UtteranceError(v, i) ==
  [CountFailure(v) EXCEPT !.utterances = Without(@, i),
                          !.isSpeaking = FALSE,
                          !.ev = VoiceEvent("onerror", "none", v)]

\* utterance.onend of the i-th utterance
UtteranceEnd(v, i) ==
  [v EXCEPT !.utterances = Without(@, i),
            !.isSpeaking = FALSE,
            !.ev = VoiceEvent("onend", "none", v)]

\* the failsafe timeout of the i-th utterance
FailsafeTimeout(v, i) ==
  LET v1 == [v EXCEPT !.utterances[i].failsafe = FALSE]
  IN  IF ~v.isSpeaking
        THEN [CountFailure(v1) EXCEPT !.ev = VoiceEvent("failsafe", "tone", v)]
      ELSE [v1 EXCEPT !.ev = VoiceEvent("failsafe", "none", v)]

\* DEBOUNCE_DELAY ms pass
VoiceTick(v) ==
  [v EXCEPT !.lastSpokenAge = 1,
            !.utterances =
              [i \in 1..Len(v.utterances) |->
                 [v.utterances[i] EXCEPT !.age = Min(@ + 1, FailsafeTicks)]],
            !.ev = VoiceEvent("tick", "none", v)]

(***************************************************************************)
(* getWarningForState (voiceWarnings.ts).  A metric that is undefined is   *)
(* None; eyesClosedSec is in tenths of a second; landmarks is "null" or    *)
(* "face"; the message is a key of WARNING_MESSAGES.                       *)
(***************************************************************************)
Warning(message, priority) == Some([message |-> message, priority |-> priority])

\* metrics.x is truthy
Truthy(x) == x = Some(TRUE)

\* A faulty getWarningForState: the head nod is looked at before the eyes.
getWarningForStateNodFirst(metrics) ==
  IF metrics.landmarks = "null" /\ metrics.isPresent = Some(FALSE)
    THEN Warning("noFaceDetected", "high")
  ELSE IF Truthy(metrics.isHeadNodding) THEN Warning("headNodding", "high")
  ELSE IF metrics.eyesClosedSec # None /\ Val(metrics.eyesClosedSec) > 20
    THEN Warning("eyesClosed", "high")
  ELSE IF metrics.eyesClosedSec # None /\ Val(metrics.eyesClosedSec) > 10
    THEN Warning("eyesClosing", "medium")
  ELSE IF Truthy(metrics.isSlouched)
    THEN IF metrics.leanDirection = Some("forward")
           THEN Warning("slouchingForward", "medium")
         ELSE Warning("slouching", "medium")
  ELSE IF Truthy(metrics.isLeaning) /\ metrics.leanDirection = Some("forward")
    THEN Warning("leaningForward", "medium")
  ELSE IF Truthy(metrics.isLeaning) /\ metrics.leanDirection = Some("backward")
    THEN Warning("leaningBackward", "medium")
  ELSE IF Truthy(metrics.isHeadTiltingBack)
    THEN Warning("headTiltingBack", "medium")
  ELSE IF Truthy(metrics.isHeadTilted) THEN Warning("headTilted", "low")
  ELSE IF metrics.yawnCount # None /\ Val(metrics.yawnCount) >= 3
    THEN Warning("frequentYawning", "low")
  ELSE IF Truthy(metrics.isYawning) THEN Warning("yawning", "low")
  ELSE IF Truthy(metrics.isLookingAway) THEN Warning("lookingAway", "low")
  ELSE None

getWarningForState(metrics) ==
  IF metrics.landmarks = "null" /\ metrics.isPresent = Some(FALSE)
    THEN Warning("noFaceDetected", "high")
  ELSE IF metrics.eyesClosedSec # None /\ Val(metrics.eyesClosedSec) > 20
    THEN Warning("eyesClosed", "high")
  ELSE IF metrics.eyesClosedSec # None /\ Val(metrics.eyesClosedSec) > 10
    THEN Warning("eyesClosing", "medium")
  ELSE IF Truthy(metrics.isHeadNodding) THEN Warning("headNodding", "high")
  ELSE IF Truthy(metrics.isSlouched)
    THEN IF metrics.leanDirection = Some("forward")
           THEN Warning("slouchingForward", "medium")
         ELSE Warning("slouching", "medium")
  ELSE IF Truthy(metrics.isLeaning) /\ metrics.leanDirection = Some("forward")
    THEN Warning("leaningForward", "medium")
  ELSE IF Truthy(metrics.isLeaning) /\ metrics.leanDirection = Some("backward")
    THEN Warning("leaningBackward", "medium")
  ELSE IF Truthy(metrics.isHeadTiltingBack)
    THEN Warning("headTiltingBack", "medium")
  ELSE IF Truthy(metrics.isHeadTilted) THEN Warning("headTilted", "low")
  ELSE IF metrics.yawnCount # None /\ Val(metrics.yawnCount) >= 3
    THEN Warning("frequentYawning", "low")
  ELSE IF Truthy(metrics.isYawning) THEN Warning("yawning", "low")
  ELSE IF Truthy(metrics.isLookingAway) THEN Warning("lookingAway", "low")
  ELSE None

Flags == {Some(FALSE), Some(TRUE)}

OptionalFlags == {None} \cup Flags

\* eyesClosedSec in tenths of a second
ClosedSecSamples == {None, Some(10), Some(15), Some(20), Some(25)}

\* (isLeaning, leanDirection)
LeanMetricSamples ==
  {<<None, None>>, <<Some(FALSE), Some("neutral")>>,
   <<Some(TRUE), Some("forward")>>, <<Some(TRUE), Some("backward")>>,
   <<Some(TRUE), Some("neutral")>>}

YawnCountSamples == {None, Some(2), Some(3)}

MetricsSamples ==
  {[landmarks |-> lm, isPresent |-> pr, eyesClosedSec |-> ec,
    isHeadNodding |-> nod, isSlouched |-> sl,
    isLeaning |-> ln[1], leanDirection |-> ln[2],
    isHeadTiltingBack |-> tb, isHeadTilted |-> tl,
    yawnCount |-> yc, isYawning |-> yw, isLookingAway |-> la] :
     lm \in {"null", "face"}, pr \in OptionalFlags, ec \in ClosedSecSamples,
     nod \in Flags, sl \in OptionalFlags, ln \in LeanMetricSamples,
     tb \in Flags, tl \in Flags, yc \in YawnCountSamples, yw \in Flags,
     la \in Flags}

\* the metrics of a call that has not been made yet
PickerStart(metrics) == [metrics |-> metrics, called |-> FALSE, warning |-> None]

PickerInit ==
  PickerStart([landmarks |-> "face", isPresent |-> None,
               eyesClosedSec |-> Some(10), isHeadNodding |-> Some(FALSE),
               isSlouched |-> None, isLeaning |-> None, leanDirection |-> None,
               isHeadTiltingBack |-> Some(FALSE), isHeadTilted |-> Some(FALSE),
               yawnCount |-> Some(2), isYawning |-> Some(FALSE),
               isLookingAway |-> Some(FALSE)])

(***************************************************************************)
(* YawnDetector: the mouth aspect ratio (MAR) is in hundredths, times are  *)
(* ages in ms before the Date.now() of the last update.                    *)
(***************************************************************************)
MAR_THRESHOLD == 60

MIN_YAWN_DURATION_MS == 500

MAX_YAWN_DURATION_MS == 3000

YAWN_WINDOW_MS == 60000

\* frames the smoothed MAR is averaged over
YawnWindow == 2

MAR_HISTORY_SIZE == YawnWindow

\* yawns counted in a run of the model
MaxYawns == 2

MarSamples == {40, 90}

\* ms between two updates of the detector
YawnGapsMs == {500, 3000, 60500}

YawnInit ==
  [marHistory |-> << >>, yawnCount |-> 0, yawnTimes |-> << >>,
   isCurrentlyYawning |-> FALSE, yawnStartAge |-> None,
   out |-> [isYawning |-> FALSE, yawnCount |-> 0], counted |-> FALSE,
   op |-> "init"]

RECURSIVE SeqSum(_)
SeqSum(q) == IF q = << >> THEN 0 ELSE Head(q) + SeqSum(Tail(q))

\* the yawn times at most YAWN_WINDOW_MS old
RECURSIVE InYawnWindow(_)
InYawnWindow(ages) ==
  IF ages = << >> THEN << >>
  ELSE IF Head(ages) <= YAWN_WINDOW_MS
    THEN << Head(ages) >> \o InYawnWindow(Tail(ages))
  ELSE InYawnWindow(Tail(ages))

\* a yawn that ended after this long is counted
IsYawnDuration(yawnDuration) ==
  yawnDuration >= MIN_YAWN_DURATION_MS /\ yawnDuration <= MAX_YAWN_DURATION_MS

\* YawnDetector.update(mar), gap ms after the update before it
YawnUpdate(y, mar, gap) ==
  LET pushed == Append(y.marHistory, mar)
      history == IF Len(pushed) > MAR_HISTORY_SIZE THEN Tail(pushed)
                 ELSE pushed
      isMouthWideOpen == SeqSum(history) > MAR_THRESHOLD * Len(history)
      startAge == Older(y.yawnStartAge, gap, MAX_YAWN_DURATION_MS + 1)
      times == [i \in 1..Len(y.yawnTimes) |-> y.yawnTimes[i] + gap]
      started == isMouthWideOpen /\ ~y.isCurrentlyYawning
      ended == /\ ~started /\ ~isMouthWideOpen
               /\ y.isCurrentlyYawning /\ startAge # None
      counted == ended /\ IsYawnDuration(Val(startAge))
      yawning == IF started THEN TRUE ELSE IF ended THEN FALSE
                 ELSE y.isCurrentlyYawning
      yawnCount == IF counted THEN y.yawnCount + 1 ELSE y.yawnCount
  IN  [marHistory |-> history,
       yawnCount |-> yawnCount,
       yawnTimes |-> InYawnWindow(IF counted THEN Append(times, 0) ELSE times),
       isCurrentlyYawning |-> yawning,
       yawnStartAge |-> IF started THEN Some(0) ELSE IF ended THEN None
                        ELSE startAge,
       out |-> [isYawning |-> yawning, yawnCount |-> yawnCount],
       counted |-> counted,
       op |-> "update"]

(***************************************************************************)
(* PostureTracker with all its fields: times are ages in ms before the     *)
(* timestamp of the last update, lean angles are in degrees.  A pose is    *)
(* None or its (postureVertical, leanAngleRaw).                            *)
(***************************************************************************)
LEAN_FORWARD_THRESHOLD == 15

LEAN_BACKWARD_THRESHOLD == -10

LeanSamplesDeg == {0, 20}

PoseSamples ==
  {None} \cup {Some([vertical |-> v, lean |-> l]) :
                 v \in VerticalSamples, l \in LeanSamplesDeg}

\* new PostureTracker()
NewPostureTracker ==
  [baselineVertical |-> None, baselineLeanAngle |-> None,
   slouchStartAge |-> None, awayStartAge |-> None, leanStartAge |-> None,
   currentLeanDirection |-> "neutral"]

\* PostureTracker.setBaseline(verticalDistance, leanAngle)
PostureTrackerSetBaseline(p, verticalDistance, leanAngle) ==
  [p EXCEPT !.baselineVertical = Some(verticalDistance),
            !.baselineLeanAngle = Some(leanAngle)]

\* PostureTracker.reset()
PostureTrackerReset(p) ==
  [p EXCEPT !.baselineVertical = None, !.slouchStartAge = None,
            !.awayStartAge = None, !.leanStartAge = None,
            !.currentLeanDirection = "neutral"]

\* isAbnormalLean(leanAngle).direction
LeanDirection(leanAngle) ==
  IF leanAngle > LEAN_FORWARD_THRESHOLD THEN "forward"
  ELSE IF leanAngle < LEAN_BACKWARD_THRESHOLD THEN "backward"
  ELSE "neutral"

\* PostureTracker.update(landmarks, timestamp), gap ms after the last update:
\* the tracker after it and what it returns
PostureTrackerUpdate(p, pose, gap) ==
  LET slouchAge == Older(p.slouchStartAge, gap, MaxSlouchMs)
      awayAge == Older(p.awayStartAge, gap, MaxSlouchMs)
      leanAge == Older(p.leanStartAge, gap, MaxSlouchMs)
  IN  IF pose = None
        THEN LET away == IF awayAge = None THEN Some(0) ELSE awayAge
             IN  [tracker |-> [p EXCEPT !.slouchStartAge = slouchAge,
                                        !.awayStartAge = away,
                                        !.leanStartAge = leanAge],
                  out |-> [isPresent |-> FALSE, isSlouchingNow |-> FALSE,
                           isSlouched |-> FALSE, slouchDuration |-> 0,
                           awayDuration |-> Val(away), leanAngle |-> 0,
                           isLeaning |-> FALSE, leanDirection |-> "neutral",
                           leanDuration |-> 0]]
      ELSE
        LET postureVertical == Val(pose).vertical
            leanAngleRaw == Val(pose).lean
            baselineLean == IF p.baselineLeanAngle = None THEN leanAngleRaw
                            ELSE Val(p.baselineLeanAngle)
            leanAngle == leanAngleRaw - baselineLean
            baseline == IF p.baselineVertical = None THEN postureVertical
                        ELSE Val(p.baselineVertical)
            isSlouchingNow == isSlouchedPosture(postureVertical, baseline)
            slouchStart == IF isSlouchingNow
                             THEN (IF slouchAge = None THEN Some(0)
                                   ELSE slouchAge)
                           ELSE None
            slouchDuration == IF slouchStart = None THEN 0
                              ELSE Val(slouchStart)
            direction == LeanDirection(leanAngle)
            isLeaning == direction # "neutral"
            leanStart == IF ~isLeaning THEN None
                         ELSE IF \/ leanAge = None
                                 \/ p.currentLeanDirection # direction
                           THEN Some(0)
                         ELSE leanAge
            leanDuration == IF leanStart = None THEN 0 ELSE Val(leanStart)
        IN  [tracker |-> [p EXCEPT !.baselineLeanAngle = Some(baselineLean),
                                   !.slouchStartAge = slouchStart,
                                   !.awayStartAge = None,
                                   !.leanStartAge = leanStart,
                                   !.currentLeanDirection = direction],
             out |-> [isPresent |-> TRUE, isSlouchingNow |-> isSlouchingNow,
                      isSlouched |-> slouchDuration > SLOUCH_MS,
                      slouchDuration |-> slouchDuration,
                      awayDuration |-> 0, leanAngle |-> leanAngle,
                      isLeaning |-> isLeaning, leanDirection |-> direction,
                      leanDuration |-> leanDuration]]

\* One tracker in use; after its reset, a new tracker is given the same
\* updates as the reset one.
ResetPairInit ==
  [phase |-> "used", used |-> NewPostureTracker, fresh |-> NewPostureTracker,
   outUsed |-> None, outFresh |-> None, calibrated |-> FALSE]

(***************************************************************************)
(* Two detector sessions A and B in one page import the same               *)
(* voiceWarnings.ts: `shared` is the module state both call into, `alone`  *)
(* is the module state session A would see if B were not there.  Every     *)
(* utterance carries the call that created it, so that a callback of one   *)
(* of A's utterances happens in both.                                      *)
(***************************************************************************)
\* calls of speakWarning in a run of the model
MaxCalls == 3

SideBySideInit ==
  [shared |-> VoiceInit, alone |-> VoiceInit,
   ownersShared |-> << >>, ownersAlone |-> << >>,
   calls |-> 0, last |-> None, op |-> "init"]

\* position of the utterance of that call, 0 if it has none
IndexOfCall(owners, call) ==
  IF \E i \in 1..Len(owners) : owners[i] = call
    THEN CHOOSE i \in 1..Len(owners) : owners[i] = call
    ELSE 0

\* session `by` calls speakWarning(message)
SessionSpeaks(s, by, message) ==
  LET call == [by |-> by, n |-> s.calls + 1]
      sh == speakWarning(s.shared, message, FALSE)
      al == IF by = "A" THEN speakWarning(s.alone, message, FALSE)
            ELSE s.alone
      Owners(owners, before, after) ==
        IF Len(after.utterances) > Len(before.utterances)
          THEN Append(owners, call) ELSE owners
  IN  [shared |-> sh, alone |-> al,
       ownersShared |-> Owners(s.ownersShared, s.shared, sh),
       ownersAlone |-> Owners(s.ownersAlone, s.alone, al),
       calls |-> s.calls + 1,
       last |-> IF by = "A"
                  THEN Some([shared |-> sh.ev.effect, alone |-> al.ev.effect])
                ELSE s.last,
       op |-> by]

\* the utterance of a call, in the module state that has it
UtteranceOf(s, call) ==
  IF IndexOfCall(s.ownersShared, call) > 0
    THEN s.shared.utterances[IndexOfCall(s.ownersShared, call)]
    ELSE s.alone.utterances[IndexOfCall(s.ownersAlone, call)]

PendingCalls(s) ==
  {s.ownersShared[i] : i \in 1..Len(s.ownersShared)}
    \cup {s.ownersAlone[i] : i \in 1..Len(s.ownersAlone)}

\* a callback of the utterance of a call runs wherever that utterance exists
OnCallback(s, call, Callback(_, _), removes, op) ==
  LET i == IndexOfCall(s.ownersShared, call)
      j == IndexOfCall(s.ownersAlone, call)
  IN  [s EXCEPT
         !.shared = IF i > 0 THEN Callback(s.shared, i) ELSE @,
         !.alone = IF j > 0 THEN Callback(s.alone, j) ELSE @,
         !.ownersShared = IF i > 0 /\ removes THEN Without(@, i) ELSE @,
         !.ownersAlone = IF j > 0 /\ removes THEN Without(@, j) ELSE @,
         !.op = op]

(***************************************************************************)
(* The tracking effect: each run of it starts a face tracker and a pose    *)
(* tracker and returns a cleanup.  startFaceTracking returns its stop      *)
(* function at once and delivers frames after its landmarker is there;     *)
(* startPoseTracking is async, and the effect learns its stop function     *)
(* only when the promise resolves.                                         *)
(***************************************************************************)
\* runs of the tracking effect in a run of the model
MaxEffects == 3

\* one run of the effect: the state of startFaceTracking's closure (face),
\* of startPoseTracking's closure (pose), the effect's stopPoseTracking
\* variable and whether its cleanup has run
NewEffect ==
  [cleaned |-> FALSE,
   face |-> [isRunning |-> TRUE, landmarker |-> "pending"],
   pose |-> [isRunning |-> FALSE, landmarker |-> "pending"],
   stopPoseTracking |-> FALSE]

TrackingInit ==
  [effects |-> << >>,
   last |-> [op |-> "init", effect |-> 0, afterCleanup |-> FALSE]]

TrackingEvent(op, e, t) ==
  [op |-> op, effect |-> e,
   afterCleanup |-> e > 0 /\ t.effects[e].cleaned]

\* the function the effect returns: stopTracking(), and stopPoseTracking()
\* if the promise has resolved
EffectCleanup(eff) ==
  [eff EXCEPT !.cleaned = TRUE, !.face.isRunning = FALSE,
              !.pose.isRunning = IF eff.stopPoseTracking THEN FALSE ELSE @]

\* await initPoseLandmarker() returns: the loop starts, and the promise
\* resolves with the stop function
PoseTrackingResolved(eff) ==
  [eff EXCEPT !.pose.landmarker = "ready", !.pose.isRunning = TRUE,
              !.stopPoseTracking = TRUE]

\* detect() of the face tracker reaches onResult
FaceTrackerDelivers(eff) ==
  eff.face.landmarker = "ready" /\ eff.face.isRunning

\* detect() of the pose tracker reaches onPose
PoseTrackerDelivers(eff) ==
  eff.pose.landmarker = "ready" /\ eff.pose.isRunning

(***************************************************************************)
(* The extension popup: the puzzle challenge that disables the extension.  *)
(* A loaded puzzle is one assignment of currentPuzzle by loadNextPuzzle.   *)
(***************************************************************************)
REQUIRED_PUZZLES == 10

\* puzzlesSolved is followed up to this value
MaxSolved == 11

\* generatePuzzle() calls that have not settled
MaxLoading == 2

\* timeouts of correct answers that have not fired
MaxTimers == 10

\* history: distinctSolved counts the loaded puzzles answered correctly since
\* the modal was last opened, credited tells whether the current one is among
\* them
PopupInit ==
  [modalOpen |-> FALSE, currentPuzzle |-> FALSE, puzzlesSolved |-> 0,
   loading |-> 0, loadTimers |-> 0, disableTimers |-> 0,
   extensionDisabled |-> FALSE,
   distinctSolved |-> 0, credited |-> FALSE, op |-> "init"]

\* loadNextPuzzle() up to its await
loadNextPuzzle(p) ==
  [p EXCEPT !.currentPuzzle = FALSE, !.loading = @ + 1]

\* generatePuzzle() settles: the puzzle, or the fallback puzzle of the catch
PuzzleArrives(p) ==
  [p EXCEPT !.currentPuzzle = TRUE, !.loading = @ - 1, !.credited = FALSE,
            !.op = "loaded"]

\* showPuzzleModal()
showPuzzleModal(p) ==
  [loadNextPuzzle(p) EXCEPT !.modalOpen = TRUE, !.puzzlesSolved = 0,
                            !.distinctSolved = 0, !.credited = FALSE,
                            !.op = "show"]

\* hidePuzzleModal()
hidePuzzleModal(p) ==
  [p EXCEPT !.modalOpen = FALSE, !.currentPuzzle = FALSE, !.op = "hide"]

\* checkPuzzleAnswer() with the answer field holding a right or a wrong answer
checkPuzzleAnswer(p, correct) ==
  IF ~p.currentPuzzle THEN [p EXCEPT !.op = "ignored"]
  ELSE IF correct
    THEN LET solved == p.puzzlesSolved + 1
         IN  [p EXCEPT
                !.puzzlesSolved = solved,
                !.disableTimers =
                   IF solved >= REQUIRED_PUZZLES THEN @ + 1 ELSE @,
                !.loadTimers = IF solved >= REQUIRED_PUZZLES THEN @ ELSE @ + 1,
                !.distinctSolved = IF p.credited THEN @ ELSE @ + 1,
                !.credited = TRUE,
                !.op = "correct"]
  ELSE [p EXCEPT !.op = "wrong"]

\* the 800 ms timeout of a correct answer: loadNextPuzzle()
LoadTimeout(p) ==
  [loadNextPuzzle(p) EXCEPT !.loadTimers = @ - 1, !.op = "loadTimeout"]

\* the 500 ms timeout of the last correct answer: extensionDisabled is set,
\* then the modal is hidden
DisableTimeout(p) ==
  [hidePuzzleModal(p) EXCEPT !.disableTimers = @ - 1,
                             !.extensionDisabled = TRUE,
                             !.op = "disabled"]

(***************************************************************************)
(* The operations.                                                         *)
(***************************************************************************)
MachineInit ==
  /\ isActive = FALSE
  /\ calibration = [collecting |-> FALSE, startAge |-> None, samples |-> 0]
  /\ baselines = FALSE
  /\ state = "awake"
  /\ confidence = "0"
  /\ activeAlarms = << >>
  /\ alarmPhrase = None
  /\ requireAck = FALSE
  /\ challengePrompt = None
  /\ challengeType = "phrase"
  /\ challengeAnswer = None
  /\ latestState = "awake"
  /\ lastAlarmState = "awake"
  /\ missingFaceFrames = 0
  /\ alarmCursor = [nodding |-> 0, sleeping |-> 0]
  /\ absentCountdown = None
  /\ isAbsenceAlarmArmed = TRUE
  /\ absentStart = None
  /\ activeWarning = None
  /\ warningStart = None
  /\ closure = [activeWarning |-> None, isAbsenceAlarmArmed |-> TRUE,
                baselines |-> FALSE]
  /\ ev = [op |-> "init", gap |-> 0, path |-> "none", spoke |-> FALSE,
           batches |-> << >>, challenges |-> 0, ret |-> "none",
           preAck |-> FALSE]
  /\ disarmedInSession = FALSE
  /\ nullRun = [ok |-> FALSE, batches |-> << >>]
  /\ riskRun = NoRun
  /\ sessions = 0
  /\ calRun = NoCalRun

Init ==
  /\ MachineInit
  /\ eyes = EyesInit(BASE_EAR_THRESHOLD_MILLI)
  /\ emitter = EmitterInit
  /\ trackers = TrackersInit
  /\ fusion = FusionInit
  /\ voice = VoiceInit
  /\ popup = PopupInit
  /\ tracking = TrackingInit
  /\ sideBySide = SideBySideInit
  /\ resetPair = ResetPairInit
  /\ yawnDetector = YawnInit
  /\ picker = PickerInit

StartSession ==
  /\ ~isActive
  /\ sessions < MaxSessions
  /\ Install(Render(StartSessionEffect(Begin("start"))))

StopSession ==
  /\ isActive
  /\ Install(Render(StopSessionEffect(Begin("stop"))))

NullFrameAfter(gaps) ==
  /\ isActive
  /\ missingFaceFrames < MaxMissingFrames
  /\ \E gap \in gaps :
       LET m == Advance(Begin("frame"), gap)
       IN  \E d \in DrawsOf(handleLandmarksNull(m, DefaultDraw)) :
             LET n == handleLandmarksNull(m, d)
             IN  CursorsInBound(n) /\ Install(Render(n))

\* While calibration collects, the closed-frame counter and the trackers are
\* fresh, and the fusion of such a frame yields awake.
FaceFrameAfter(gaps) ==
  /\ isActive
  /\ \E gap \in gaps, in \in FusedOutcomes :
       /\ calibration.collecting => in.state = "awake"
       /\ LET m == Advance(Begin("frame"), gap)
          IN  \E d \in DrawsOf(handleLandmarksFace(m, in, DefaultDraw)) :
                LET n == handleLandmarksFace(m, in, d)
                IN  CursorsInBound(n) /\ Install(Render(n))

NullFrame == NullFrameAfter(1..MaxGap)

FaceFrame == FaceFrameAfter(1..MaxGap)

SilenceAlarm ==
  \E input \in SilenceInputs :
    Install(Render(silenceAlarm(Begin("silence"), input)))

TriggerDebugAlarm ==
  \E preferred \in {None} \cup {Some(ChallengeTypes[i]) : i \in 1..3},
     d \in Draws :
    /\ preferred # None => d.u = 0
    /\ LET n == triggerDebugAlarm(Begin("debug"), preferred, d)
       IN  CursorsInBound(n) /\ Install(Render(n))

DisarmAbsenceAlarm ==
  Install(Render(disarmAbsenceAlarm(Begin("disarm"))))

Next ==
  \/ StartSession
  \/ StopSession
  \/ NullFrame
  \/ FaceFrame
  \/ SilenceAlarm
  \/ TriggerDebugAlarm
  \/ DisarmAbsenceAlarm

Spec == Init /\ [][Next]_vars

(***************************************************************************)
(* The debug panel used over and over: alarmCursorRef goes round the       *)
(* library.                                                                *)
(***************************************************************************)
TriggerDebugAlarmAgain ==
  \E preferred \in {None} \cup {Some(ChallengeTypes[i]) : i \in 1..3},
     d \in Draws :
    /\ preferred # None => d.u = 0
    /\ Install(Render(triggerDebugAlarm(Begin("debug"), preferred, d)))

NextAlarms == TriggerDebugAlarmAgain \/ SilenceAlarm \/ DisarmAbsenceAlarm

SpecAlarms == Init /\ [][NextAlarms]_vars

(***************************************************************************)
(* The voice warnings on their own.                                        *)
(***************************************************************************)
SpeakWarning ==
  /\ \E message \in SpokenMessages, threw \in BOOLEAN :
       LET v == speakWarning(voice, message, threw)
       IN  Len(v.utterances) <= MaxUtterances /\ voice' = v
  /\ UNCHANGED << machine, eyes, emitter, trackers, fusion, picker,
                  yawnDetector, resetPair, sideBySide, tracking, popup >>

CancelVoiceWarning ==
  /\ voice' = cancelVoiceWarning(voice)
  /\ UNCHANGED << machine, eyes, emitter, trackers, fusion, picker,
                  yawnDetector, resetPair, sideBySide, tracking, popup >>

\* the speech synthesis starts an utterance that has not started
OnStart ==
  /\ \E i \in 1..Len(voice.utterances) :
       /\ ~voice.utterances[i].started
       /\ voice' = UtteranceStart(voice, i)
  /\ UNCHANGED << machine, eyes, emitter, trackers, fusion, picker,
                  yawnDetector, resetPair, sideBySide, tracking, popup >>

\* the speech synthesis reports an error of an utterance, started or not
OnError ==
  /\ \E i \in 1..Len(voice.utterances) : voice' = UtteranceError(voice, i)
  /\ UNCHANGED << machine, eyes, emitter, trackers, fusion, picker,
                  yawnDetector, resetPair, sideBySide, tracking, popup >>

OnEnd ==
  /\ \E i \in 1..Len(voice.utterances) :
       /\ voice.utterances[i].started
       /\ voice' = UtteranceEnd(voice, i)
  /\ UNCHANGED << machine, eyes, emitter, trackers, fusion, picker,
                  yawnDetector, resetPair, sideBySide, tracking, popup >>

\* the timeout runs FAILSAFE_MS after the call unless a callback cleared it
Failsafe ==
  /\ \E i \in 1..Len(voice.utterances) :
       /\ voice.utterances[i].failsafe
       /\ voice.utterances[i].age = FailsafeTicks
       /\ voice' = FailsafeTimeout(voice, i)
  /\ UNCHANGED << machine, eyes, emitter, trackers, fusion, picker,
                  yawnDetector, resetPair, sideBySide, tracking, popup >>

\* time passes, but not past a timeout that is due
TimePasses ==
  /\ \A i \in 1..Len(voice.utterances) :
       ~(voice.utterances[i].failsafe
           /\ voice.utterances[i].age = FailsafeTicks)
  /\ voice' = VoiceTick(voice)
  /\ UNCHANGED << machine, eyes, emitter, trackers, fusion, picker,
                  yawnDetector, resetPair, sideBySide, tracking, popup >>

NextVoice ==
  \/ SpeakWarning
  \/ CancelVoiceWarning
  \/ OnStart
  \/ OnError
  \/ OnEnd
  \/ Failsafe
  \/ TimePasses

SpecVoice == Init /\ [][NextVoice]_vars

(***************************************************************************)
(* getWarningForState on its own.                                          *)
(***************************************************************************)
InitPicker ==
  /\ MachineInit
  /\ eyes = EyesInit(BASE_EAR_THRESHOLD_MILLI)
  /\ emitter = EmitterInit
  /\ trackers = TrackersInit
  /\ fusion = FusionInit
  /\ voice = VoiceInit
  /\ popup = PopupInit
  /\ tracking = TrackingInit
  /\ sideBySide = SideBySideInit
  /\ resetPair = ResetPairInit
  /\ yawnDetector = YawnInit
  /\ \E metrics \in MetricsSamples : picker = PickerStart(metrics)

GetWarningForState ==
  /\ ~picker.called
  /\ picker' = [picker EXCEPT !.called = TRUE,
                              !.warning = getWarningForState(picker.metrics)]
  /\ UNCHANGED << machine, eyes, emitter, trackers, fusion, voice,
                  yawnDetector, resetPair, sideBySide, tracking, popup >>

NextPicker == GetWarningForState

SpecPicker == InitPicker /\ [][NextPicker]_vars

(***************************************************************************)
(* The yawn detector on its own.                                           *)
(***************************************************************************)
YawnFrame ==
  /\ \E mar \in MarSamples, gap \in YawnGapsMs :
       LET y == YawnUpdate(yawnDetector, mar, gap)
       IN  y.yawnCount <= MaxYawns /\ yawnDetector' = y
  /\ UNCHANGED << machine, eyes, emitter, trackers, fusion, voice, picker,
                  resetPair, sideBySide, tracking, popup >>

NextYawn == YawnFrame

SpecYawn == Init /\ [][NextYawn]_vars

(***************************************************************************)
(* A PostureTracker that is used, reset, and then used next to a new one.  *)
(***************************************************************************)
others_resetPair ==
  << machine, eyes, emitter, trackers, fusion, voice, picker, yawnDetector,
     sideBySide, tracking, popup >>

UsePostureTracker ==
  /\ resetPair.phase = "used"
  /\ \E pose \in PoseSamples, gap \in PoseGapsMs :
       resetPair' =
         [resetPair EXCEPT
            !.used = PostureTrackerUpdate(resetPair.used, pose, gap).tracker]
  /\ UNCHANGED others_resetPair

SetPostureBaseline ==
  /\ resetPair.phase = "used"
  /\ \E v \in VerticalSamples, l \in LeanSamplesDeg :
       resetPair' =
         [resetPair EXCEPT
            !.used = PostureTrackerSetBaseline(resetPair.used, v, l),
            !.calibrated = TRUE]
  /\ UNCHANGED others_resetPair

ResetPostureTracker ==
  /\ resetPair.phase = "used"
  /\ resetPair' = [resetPair EXCEPT !.phase = "reset",
                                    !.used = PostureTrackerReset(resetPair.used),
                                    !.fresh = NewPostureTracker]
  /\ UNCHANGED others_resetPair

UpdateBothTrackers ==
  /\ resetPair.phase = "reset"
  /\ \E pose \in PoseSamples, gap \in PoseGapsMs :
       LET u == PostureTrackerUpdate(resetPair.used, pose, gap)
           f == PostureTrackerUpdate(resetPair.fresh, pose, gap)
       IN  resetPair' = [resetPair EXCEPT !.used = u.tracker,
                                          !.fresh = f.tracker,
                                          !.outUsed = Some(u.out),
                                          !.outFresh = Some(f.out)]
  /\ UNCHANGED others_resetPair

NextReset ==
  \/ UsePostureTracker
  \/ SetPostureBaseline
  \/ ResetPostureTracker
  \/ UpdateBothTrackers

SpecReset == Init /\ [][NextReset]_vars

(***************************************************************************)
(* Two sessions side by side on the voice warnings.                        *)
(***************************************************************************)
others_sideBySide ==
  << machine, eyes, emitter, trackers, fusion, voice, picker, yawnDetector,
     resetPair, tracking, popup >>

SessionASpeaks ==
  /\ sideBySide.calls < MaxCalls
  /\ \E message \in SpokenMessages :
       LET s == SessionSpeaks(sideBySide, "A", message)
       IN  /\ Len(s.shared.utterances) <= MaxUtterances
           /\ Len(s.alone.utterances) <= MaxUtterances
           /\ sideBySide' = s
  /\ UNCHANGED others_sideBySide

SessionBSpeaks ==
  /\ sideBySide.calls < MaxCalls
  /\ \E message \in SpokenMessages :
       LET s == SessionSpeaks(sideBySide, "B", message)
       IN  /\ Len(s.shared.utterances) <= MaxUtterances
           /\ sideBySide' = s
  /\ UNCHANGED others_sideBySide

SpeechStarts ==
  /\ \E call \in PendingCalls(sideBySide) :
       /\ ~UtteranceOf(sideBySide, call).started
       /\ sideBySide' =
            OnCallback(sideBySide, call, UtteranceStart, FALSE, "onstart")
  /\ UNCHANGED others_sideBySide

SpeechFails ==
  /\ \E call \in PendingCalls(sideBySide) :
       sideBySide' =
         OnCallback(sideBySide, call, UtteranceError, TRUE, "onerror")
  /\ UNCHANGED others_sideBySide

SpeechEnds ==
  /\ \E call \in PendingCalls(sideBySide) :
       /\ UtteranceOf(sideBySide, call).started
       /\ sideBySide' =
            OnCallback(sideBySide, call, UtteranceEnd, TRUE, "onend")
  /\ UNCHANGED others_sideBySide

SpeechTimesOut ==
  /\ \E call \in PendingCalls(sideBySide) :
       /\ UtteranceOf(sideBySide, call).failsafe
       /\ UtteranceOf(sideBySide, call).age = FailsafeTicks
       /\ sideBySide' =
            OnCallback(sideBySide, call, FailsafeTimeout, FALSE, "failsafe")
  /\ UNCHANGED others_sideBySide

DebounceDelayPasses ==
  /\ \A call \in PendingCalls(sideBySide) :
       ~( /\ UtteranceOf(sideBySide, call).failsafe
          /\ UtteranceOf(sideBySide, call).age = FailsafeTicks )
  /\ sideBySide' = [sideBySide EXCEPT !.shared = VoiceTick(@),
                                      !.alone = VoiceTick(@),
                                      !.op = "tick"]
  /\ UNCHANGED others_sideBySide

NextSideBySide ==
  \/ SessionASpeaks
  \/ SessionBSpeaks
  \/ SpeechStarts
  \/ SpeechFails
  \/ SpeechEnds
  \/ SpeechTimesOut
  \/ DebounceDelayPasses

SpecSideBySide == Init /\ [][NextSideBySide]_vars

(***************************************************************************)
(* The tracking effect run, cleaned up and run again.                      *)
(***************************************************************************)
others_tracking ==
  << machine, eyes, emitter, trackers, fusion, voice, picker, yawnDetector,
     resetPair, sideBySide, popup >>

\* the effect runs: at mount, or after the cleanup of the run before it
RunTrackingEffect ==
  /\ Len(tracking.effects) < MaxEffects
  /\ \A e \in 1..Len(tracking.effects) : tracking.effects[e].cleaned
  /\ tracking' = [effects |-> Append(tracking.effects, NewEffect),
                  last |-> TrackingEvent("effect", 0, tracking)]
  /\ UNCHANGED others_tracking

\* session stop, or a change of baselines or isAbsenceAlarmArmed
CleanupTrackingEffect ==
  /\ \E e \in 1..Len(tracking.effects) :
       /\ ~tracking.effects[e].cleaned
       /\ tracking' = [effects |-> [tracking.effects EXCEPT
                                      ![e] = EffectCleanup(@)],
                       last |-> TrackingEvent("cleanup", e, tracking)]
  /\ UNCHANGED others_tracking

FaceLandmarkerReady ==
  /\ \E e \in 1..Len(tracking.effects) :
       /\ tracking.effects[e].face.landmarker = "pending"
       /\ tracking' = [effects |-> [tracking.effects EXCEPT
                                      ![e].face.landmarker = "ready"],
                       last |-> TrackingEvent("faceReady", e, tracking)]
  /\ UNCHANGED others_tracking

\* initializeFaceLandmarker() rejects: the catch handler calls onResult(null)
FaceLandmarkerFails ==
  /\ \E e \in 1..Len(tracking.effects) :
       /\ tracking.effects[e].face.landmarker = "pending"
       /\ tracking' = [effects |-> [tracking.effects EXCEPT
                                      ![e].face.landmarker = "failed"],
                       last |-> TrackingEvent("faceFrame", e, tracking)]
  /\ UNCHANGED others_tracking

PoseLandmarkerReady ==
  /\ \E e \in 1..Len(tracking.effects) :
       /\ tracking.effects[e].pose.landmarker = "pending"
       /\ tracking' = [effects |-> [tracking.effects EXCEPT
                                      ![e] = PoseTrackingResolved(@)],
                       last |-> TrackingEvent("poseReady", e, tracking)]
  /\ UNCHANGED others_tracking

FaceFrameDelivered ==
  /\ \E e \in 1..Len(tracking.effects) :
       /\ FaceTrackerDelivers(tracking.effects[e])
       /\ tracking' = [tracking EXCEPT
                         !.last = TrackingEvent("faceFrame", e, tracking)]
  /\ UNCHANGED others_tracking

PoseFrameDelivered ==
  /\ \E e \in 1..Len(tracking.effects) :
       /\ PoseTrackerDelivers(tracking.effects[e])
       /\ tracking' = [tracking EXCEPT
                         !.last = TrackingEvent("poseFrame", e, tracking)]
  /\ UNCHANGED others_tracking

NextTracking ==
  \/ RunTrackingEffect
  \/ CleanupTrackingEffect
  \/ FaceLandmarkerReady
  \/ FaceLandmarkerFails
  \/ PoseLandmarkerReady
  \/ FaceFrameDelivered
  \/ PoseFrameDelivered

SpecTracking == Init /\ [][NextTracking]_vars

(***************************************************************************)
(* The puzzle challenge of the popup.                                      *)
(***************************************************************************)
others_popup ==
  << machine, eyes, emitter, trackers, fusion, voice, picker, yawnDetector,
     resetPair, sideBySide, tracking >>

\* the disable button
ShowPuzzleModal ==
  /\ ~popup.modalOpen /\ ~popup.extensionDisabled
  /\ popup.loading < MaxLoading
  /\ popup' = showPuzzleModal(popup)
  /\ UNCHANGED others_popup

\* the cancel button
CancelPuzzles ==
  /\ popup.modalOpen
  /\ popup' = hidePuzzleModal(popup)
  /\ UNCHANGED others_popup

GeneratePuzzleSettles ==
  /\ popup.loading > 0
  /\ popup' = PuzzleArrives(popup)
  /\ UNCHANGED others_popup

\* the submit button or the Enter key
SubmitPuzzleAnswer ==
  /\ popup.modalOpen
  /\ popup.puzzlesSolved < MaxSolved
  /\ popup.loadTimers + popup.disableTimers < MaxTimers
  /\ \E correct \in BOOLEAN : popup' = checkPuzzleAnswer(popup, correct)
  /\ UNCHANGED others_popup

LoadTimerFires ==
  /\ popup.loadTimers > 0
  /\ popup.loading < MaxLoading
  /\ popup' = LoadTimeout(popup)
  /\ UNCHANGED others_popup

DisableTimerFires ==
  /\ popup.disableTimers > 0
  /\ popup' = DisableTimeout(popup)
  /\ UNCHANGED others_popup

NextPopup ==
  \/ ShowPuzzleModal
  \/ CancelPuzzles
  \/ GeneratePuzzleSettles
  \/ SubmitPuzzleAnswer
  \/ LoadTimerFires
  \/ DisableTimerFires

SpecPopup == Init /\ [][NextPopup]_vars

(***************************************************************************)
(* Two sessions and a slow detection loop: the hook is stopped and started *)
(* again after some idle time, and a frame may come several frame          *)
(* intervals after the one before it.                                      *)
(***************************************************************************)
\* time the hook stays inactive before it is started, in frame intervals
IdleGaps == {1, AbsenceTicks}

\* frame intervals between two frames of a slow detection loop
SlowGaps == {1, CalibrationTicks}

RestartSession ==
  /\ ~isActive
  /\ sessions < MaxSessions + 1
  /\ \E gap \in IdleGaps :
       Install(Render(StartSessionEffect(Advance(Begin("start"), gap))))

SlowNullFrame == NullFrameAfter(SlowGaps)

SlowFaceFrame == FaceFrameAfter(SlowGaps)

NextRestart ==
  \/ RestartSession
  \/ StopSession
  \/ SlowNullFrame
  \/ SlowFaceFrame
  \/ DisarmAbsenceAlarm

SpecRestart == Init /\ [][NextRestart]_vars

(***************************************************************************)
(* The parts of a frame on their own: each specification drives one part   *)
(* with inputs from its sample sets and leaves the escalation machine in   *)
(* its initial state.                                                      *)
(***************************************************************************)
InitEyes ==
  /\ MachineInit
  /\ \E b \in EarBaselines : eyes = EyesInit(b)
  /\ emitter = EmitterInit
  /\ trackers = TrackersInit
  /\ fusion = FusionInit
  /\ voice = VoiceInit
  /\ popup = PopupInit
  /\ tracking = TrackingInit
  /\ sideBySide = SideBySideInit
  /\ resetPair = ResetPairInit
  /\ yawnDetector = YawnInit
  /\ picker = PickerInit

\* a fused frame, as far as the eye closure goes
EyeFrame ==
  /\ \E ear \in EarSamples :
       /\ EarBelowThreshold(ear, eyes.baselineEar)
            => eyes.closedFrames < MaxClosedRun
       /\ eyes' = EyeClosureStep(eyes, ear)
  /\ UNCHANGED << machine, emitter, trackers, fusion, voice, picker,
                  yawnDetector, resetPair, sideBySide, tracking, popup >>

NextEyes == EyeFrame

SpecEyes == InitEyes /\ [][NextEyes]_vars

InitEmit ==
  /\ MachineInit
  /\ eyes = EyesInit(BASE_EAR_THRESHOLD_MILLI)
  /\ emitter = EmitterInit
  /\ trackers = TrackersInit
  /\ fusion = FusionInit
  /\ voice = VoiceInit
  /\ popup = PopupInit
  /\ tracking = TrackingInit
  /\ sideBySide = SideBySideInit
  /\ resetPair = ResetPairInit
  /\ yawnDetector = YawnInit
  /\ picker = PickerInit

\* a fused frame, as far as the snapshot goes
SnapshotFrame ==
  /\ \E gap \in FrameGapsMs, st \in AttentionStates,
        conf \in ConfidenceSamples :
       /\ emitter.now + gap <= MaxEmitClock
       /\ emitter' = EmitSnapshotStep(emitter, emitter.now + gap, st, conf)
  /\ UNCHANGED << machine, eyes, trackers, fusion, voice, picker,
                  yawnDetector, resetPair, sideBySide, tracking, popup >>

\* a frame without landmarks or during calibration
UnfusedFrame ==
  /\ \E gap \in FrameGapsMs :
       /\ emitter.now + gap <= MaxEmitClock
       /\ emitter' = NoSnapshotStep(emitter, emitter.now + gap)
  /\ UNCHANGED << machine, eyes, trackers, fusion, voice, picker,
                  yawnDetector, resetPair, sideBySide, tracking, popup >>

NextEmit == SnapshotFrame \/ UnfusedFrame

SpecEmit == InitEmit /\ [][NextEmit]_vars

InitTrackers ==
  /\ MachineInit
  /\ eyes = EyesInit(BASE_EAR_THRESHOLD_MILLI)
  /\ emitter = EmitterInit
  /\ \E b \in VerticalBaselines :
       trackers = [TrackersInit EXCEPT !.baselineVertical = b]
  /\ fusion = FusionInit
  /\ voice = VoiceInit
  /\ popup = PopupInit
  /\ tracking = TrackingInit
  /\ sideBySide = SideBySideInit
  /\ resetPair = ResetPairInit
  /\ yawnDetector = YawnInit
  /\ picker = PickerInit

\* handleLandmarks with landmarks, as far as the head trackers go
TrackFaceFrame ==
  /\ \E pitch \in PitchSamples, tilt \in TiltSamples :
       LET t == TrackFaceStep(trackers, pitch, tilt)
       IN  t.nodCount <= MaxNodCount /\ trackers' = t
  /\ UNCHANGED << machine, eyes, emitter, fusion, voice, picker,
                  yawnDetector, resetPair, sideBySide, tracking, popup >>

\* handlePose
TrackPoseFrame ==
  /\ \E v \in {None} \cup {Some(x) : x \in VerticalSamples},
        gap \in PoseGapsMs :
       trackers' = PostureUpdate(trackers, v, gap)
  /\ UNCHANGED << machine, eyes, emitter, fusion, voice, picker,
                  yawnDetector, resetPair, sideBySide, tracking, popup >>

NextTrackers == TrackFaceFrame \/ TrackPoseFrame

SpecTrackers == InitTrackers /\ [][NextTrackers]_vars

InitFusion ==
  /\ MachineInit
  /\ eyes = EyesInit(BASE_EAR_THRESHOLD_MILLI)
  /\ emitter = EmitterInit
  /\ trackers = TrackersInit
  /\ \E in \in TrackerOutputs : fusion = FusionStart(in)
  /\ voice = VoiceInit
  /\ popup = PopupInit
  /\ tracking = TrackingInit
  /\ sideBySide = SideBySideInit
  /\ resetPair = ResetPairInit
  /\ yawnDetector = YawnInit
  /\ picker = PickerInit

\* the first fused frame after calibration, the eyes open
FirstFusedFrame ==
  /\ fusion.out = None
  /\ fusion' = FuseStep(fusion, 0)
  /\ UNCHANGED << machine, eyes, emitter, trackers, voice, picker,
                  yawnDetector, resetPair, sideBySide, tracking, popup >>

\* later fused frames with the eyes closed and the other outputs unchanged,
\* up to the next number of closed frames explored
EyesStayClosed ==
  /\ fusion.out # None
  /\ \E n \in ClosedFrameSamples :
       /\ n > fusion.in.closedFrames
       /\ \A k \in ClosedFrameSamples : ~(fusion.in.closedFrames < k /\ k < n)
       /\ fusion' = FuseStep(fusion, n)
  /\ UNCHANGED << machine, eyes, emitter, trackers, voice, picker,
                  yawnDetector, resetPair, sideBySide, tracking, popup >>

\* a fused frame with the eyes open after closed frames
EyesOpenAgain ==
  /\ fusion.out # None
  /\ fusion.in.closedFrames > 0
  /\ fusion' = FuseStep(fusion, 0)
  /\ UNCHANGED << machine, eyes, emitter, trackers, voice, picker,
                  yawnDetector, resetPair, sideBySide, tracking, popup >>

NextFusion == FirstFusedFrame \/ EyesStayClosed \/ EyesOpenAgain

SpecFusion == InitFusion /\ [][NextFusion]_vars

(***************************************************************************)
(* Properties of the escalation machine.                                   *)
(***************************************************************************)
\* no challenge is set: no phrase, no prompt, no answer
NoChallenge ==
  alarmPhrase = None /\ challengePrompt = None /\ challengeAnswer = None

\* a phrase challenge and nothing else
PhraseChallengeActive ==
  /\ challengeType = "phrase"
  /\ alarmPhrase # None
  /\ challengePrompt = None /\ challengeAnswer = None

\* a math or trivia challenge and nothing else
PromptChallengeActive ==
  /\ challengeType \in {"math", "trivia"}
  /\ challengePrompt # None /\ challengeAnswer # None
  /\ alarmPhrase = None

\* the answer the active challenge expects
ExpectedAnswer ==
  IF challengeType = "phrase" THEN alarmPhrase ELSE challengeAnswer

\* the input is the expected answer, up to letter case and surrounding blanks
Matches(input) ==
  /\ ExpectedAnswer # None
  /\ ToUpperCase(Trim(input)) = ToUpperCase(Trim(Val(ExpectedAnswer)))

\* what silenceAlarm(input) returns in the current state
SilenceReturns(input) == silenceAlarm(Begin("silence"), input).ev.ret

\* the active alarms are one batch of the tier of risk state s
IsBatchOf(alarms, s) ==
  /\ Len(alarms) = BatchSizeOf(s)
  /\ \A i \in 1..Len(alarms) : alarms[i].id[1] = TierOf(s)

\* the last operation was a frame with landmarks that the fusion classified
FusedFrame == ev.op = "frame" /\ ev.path = "fused"

\* the last operation was a frame without landmarks
NullFrameSeen == ev.op = "frame" /\ missingFaceFrames > 0

\* C1: while an acknowledgment is required, silenceAlarm(input) returns true
\* only if the latest classified state is awake and the input matches the
\* expected answer; when the latest classified state is noddingOff or sleeping
\* it returns false for every input, the correct answer included.
C1_SilenceNeedsAwakeAndAnswer ==
  requireAck =>
    \A input \in SilenceInputs :
      /\ SilenceReturns(input) = "true" =>
           latestState = "awake" /\ Matches(input)
      /\ IsRisk(latestState) => SilenceReturns(input) = "false"

\* an acknowledgment was required and silenceAlarm accepted the answer
C1_Accepted ==
  /\ ev.op = "silence" /\ ev.preAck /\ ev.ret = "true"
  /\ latestState = "awake"

\* C2: after silenceAlarm returns true on a required acknowledgment, the
\* active alarms are empty, no challenge remains, requireAck is false, the
\* last alarm tier is awake, and no grace timer of a voice warning from before
\* the acknowledgment is still running.
C2_QuietAfterSilence ==
  (ev.op = "silence" /\ ev.preAck /\ ev.ret = "true") =>
    /\ activeAlarms = << >>
    /\ NoChallenge
    /\ ~requireAck
    /\ lastAlarmState = "awake"
    /\ warningStart = None

\* the answer was accepted, the alarm state is reset, and the grace timer
\* started before the acknowledgment is still running, already expired
C2_TimerSurvives ==
  /\ ev.op = "silence" /\ ev.preAck /\ ev.ret = "true"
  /\ activeAlarms = << >> /\ NoChallenge /\ ~requireAck
  /\ lastAlarmState = "awake"
  /\ warningStart # None
  /\ AtLeastMs(Val(warningStart), VOICE_GRACE_PERIOD_MS)

\* C3: in every reachable state requireAck is true iff exactly one challenge
\* is active: a phrase with no prompt and no answer, or a math or trivia
\* prompt and answer with no phrase.
C3_AckIffOneChallenge ==
  /\ requireAck <=> (PhraseChallengeActive \/ PromptChallengeActive)
  /\ ~requireAck => NoChallenge

\* a frame replaced the challenge of an outstanding acknowledgment
C3_ChallengeReplaced ==
  /\ ev.op = "frame" /\ ev.preAck /\ ev.challenges = 1
  /\ requireAck /\ PromptChallengeActive

\* C4: while an acknowledgment is required, a frame classified in the risk
\* state of the outstanding alarm tier, with or without landmarks, leaves the
\* challenge, the active alarms and the alarm cursors unchanged and generates
\* no challenge.
C4_SameStateFrameChangesNothing ==
  [][ ( /\ requireAck
        /\ IsRisk(lastAlarmState)
        /\ ev'.op = "frame"
        /\ ev'.path \in {"fused", "missing"}
        /\ latestState' = lastAlarmState )
      => ( /\ UNCHANGED << challengeType, alarmPhrase, challengePrompt,
                           challengeAnswer, activeAlarms, alarmCursor,
                           requireAck, lastAlarmState >>
           /\ ev'.challenges = 0
           /\ ev'.batches = << >> ) ]_vars

\* a sleeping frame came while the sleeping alarm was outstanding
C4_RepeatedSleepingFrame ==
  /\ FusedFrame /\ ev.preAck /\ requireAck
  /\ latestState = "sleeping" /\ lastAlarmState = "sleeping"
  /\ ev.batches = << >> /\ ev.challenges = 0

\* C5: an alarm raised by a fused frame with no acknowledgment outstanding is
\* preceded by a voice warning spoken at least 5000 ms earlier, with no frame
\* that the fusion classified awake in between.
C5_AlarmFollowsWarningInRun ==
  (FusedFrame /\ ~ev.preAck /\ ev.batches # << >>) =>
    /\ riskRun.spoken # None
    /\ AtLeastMs(Val(riskRun.spoken), VOICE_GRACE_PERIOD_MS)

\* an alarm raised by the first risk frame after a fused awake frame
C5_AlarmOnFirstRiskFrame ==
  /\ FusedFrame /\ ~ev.preAck /\ ev.batches # << >>
  /\ riskRun.spoken = Some(0)

C7_AwakeFrameCancelsWarning ==
  (FusedFrame /\ latestState = "awake" /\ ~ev.preAck) =>
    /\ activeWarning = None
    /\ warningStart = None
    /\ ev.batches = << >> /\ ev.challenges = 0
    /\ ~requireAck

\* an awake frame left the voice warning and its grace timer in place
C7_WarningSurvivesAwakeFrame ==
  /\ FusedFrame /\ latestState = "awake" /\ ~ev.preAck
  /\ activeWarning # None /\ warningStart # None
  /\ ev.batches = << >> /\ ev.challenges = 0

\* C8: with an acknowledgment outstanding for the nodding tier, a frame
\* classified sleeping makes the active alarms a 5-item sleeping batch,
\* replaces the challenge by a newly generated math or trivia challenge and
\* makes the last alarm tier sleeping, on that frame.
C8_EscalationToSleeping ==
  [][ ( /\ requireAck
        /\ lastAlarmState = "noddingOff"
        /\ ev'.op = "frame"
        /\ ev'.path \in {"fused", "missing"}
        /\ latestState' = "sleeping" )
      => ( /\ requireAck'
           /\ IsBatchOf(activeAlarms', "sleeping")
           /\ ev'.batches = << "sleeping" >>
           /\ ev'.challenges = 1
           /\ PromptChallengeActive'
           /\ lastAlarmState' = "sleeping" ) ]_vars

\* a sleeping frame with landmarks escalated an outstanding phrase alarm
C8_EscalatedFromNodding ==
  /\ FusedFrame /\ ev.preAck /\ latestState = "sleeping"
  /\ ev.batches = << "sleeping" >> /\ ev.challenges = 1
  /\ lastAlarmState = "sleeping"
  /\ alarmCursor.nodding > 0

\* C9: in a calibrated session with the absence alarm armed and nothing
\* outstanding, a run of null frames one frame interval apart that reaches
\* 5.0 s ends in state sleeping with confidence 0.99, and exactly one alarm
\* batch was generated in the run, a 5-item sleeping batch.
C9_AbsenceRunRaisesOneSleepingBatch ==
  (NullFrameSeen /\ nullRun.ok /\ missingFaceFrames = AbsenceTicks + 1) =>
    /\ state = "sleeping"
    /\ confidence = "0.99"
    /\ nullRun.batches = << "sleeping" >>
    /\ IsBatchOf(activeAlarms, "sleeping")

\* the run reached 5.0 s after a nodding batch and a sleeping batch, the
\* state set by the missing-frame threshold
C9_TwoBatchesInRun ==
  /\ NullFrameSeen /\ nullRun.ok /\ missingFaceFrames = AbsenceTicks + 1
  /\ state = "sleeping" /\ confidence = "0.98"
  /\ nullRun.batches = << "nodding", "sleeping" >>

\* C10: once disarmAbsenceAlarm was called in a session, no frame without
\* landmarks generates an alarm batch or sets requireAck for the rest of the
\* session.
C10_NoNullFrameAlarmAfterDisarm ==
  (disarmedInSession /\ NullFrameSeen) =>
    /\ ev.batches = << >>
    /\ requireAck => ev.preAck

\* a frame without landmarks raised an alarm in a session that was disarmed
C10_AlarmAfterDisarm ==
  /\ disarmedInSession /\ ~isAbsenceAlarmArmed /\ NullFrameSeen
  /\ ~ev.preAck /\ requireAck /\ ev.batches # << >>

C17_FlagsHaveHysteresis ==
  /\ ( /\ trackers.op = "face" /\ trackers.prev.isForwardNodding
       /\ trackers.prev.pitch > HEAD_PITCH_THRESHOLD )
     => trackers.nod.isForwardNodding
  /\ ( /\ trackers.op = "face" /\ trackers.prev.isForwardNodding
       /\ ~trackers.nod.isForwardNodding )
     => trackers.nod.windowMax < HEAD_PITCH_THRESHOLD - FORWARD_HYSTERESIS
  /\ (trackers.op = "face" /\ trackers.prev.isTilted) => trackers.isTilted
  /\ (trackers.op = "pose" /\ trackers.prev.isSlouched)
     => trackers.posture.isSlouched

\* one frame at 29 degrees cleared the tilt flag set by a frame at 31 degrees
C17_TiltClearedByOneFrame ==
  /\ trackers.op = "face"
  /\ trackers.prev.isTilted /\ Abs(trackers.prev.tilt) = 31
  /\ Abs(trackers.tilt) = 29 /\ ~trackers.isTilted

\* C19: the timestamps of two successively emitted snapshots differ by at
\* least 300 ms, and an emitted snapshot carries the state and confidence
\* computed on the frame that emitted it.
C19_SnapshotsAtLeast300msApart ==
  emitter.emitted =>
    /\ emitter.prevT # None =>
         Val(emitter.snapshot).t - Val(emitter.prevT) >= 300
    /\ Val(emitter.snapshot).t = emitter.now
    /\ Val(emitter.snapshot).state = Val(emitter.frame).state
    /\ Val(emitter.snapshot).confidence = Val(emitter.frame).confidence

\* a snapshot emitted after a fused frame that was too early to emit one
C19_EmittedAfterSkippedFrame ==
  /\ emitter.emitted /\ emitter.afterSkip /\ emitter.prevT # None
  /\ Val(emitter.snapshot).t - Val(emitter.prevT) >= 300

\* C12: a baseline is produced only on a frame where the samples all come
\* from one uninterrupted run of frames with landmarks, the run has at least
\* MIN_CALIBRATION_FRAMES samples and at least 4000 ms have passed since its
\* first frame; a frame without landmarks during the collection empties the
\* samples and clears the start timestamp.
C12_BaselineFromOneUninterruptedRun ==
  /\ (baselines /\ calRun # NoCalRun) =>
       /\ ev.op = "frame" /\ missingFaceFrames = 0
       /\ calRun.frames >= MIN_CALIBRATION_FRAMES
       /\ calRun.age # None
       /\ AtLeastMs(Val(calRun.age), CALIBRATION_DURATION_MS)
  /\ calibration.collecting =>
       /\ ~baselines
       /\ calibration.samples = calRun.frames
       /\ calibration.startAge = calRun.age
       /\ NullFrameSeen =>
            calibration.samples = 0 /\ calibration.startAge = None

\* the baseline was produced by a collection that a frame without landmarks
\* had interrupted
C12_BaselineAfterInterruption ==
  /\ baselines /\ ~calibration.collecting
  /\ calRun.interrupted
  /\ calRun.frames >= MIN_CALIBRATION_FRAMES

\* C13: a frame processed while calibration is still collecting leaves the
\* baseline null and the reported state awake with confidence at most 0.2,
\* and raises no alarm, no challenge and no voice warning.
C13_CalibratingFrameIsQuiet ==
  (ev.op = "frame" /\ calibration.collecting) =>
    /\ ~baselines
    /\ state = "awake"
    /\ confidence \in {"0.15", "0.2"}
    /\ ev.batches = << >> /\ ev.challenges = 0
    /\ ~ev.spoke
    /\ requireAck => ev.preAck

\* a frame without landmarks raised the absence alarm while the second
\* session was still calibrating
C13_AbsenceAlarmWhileCalibrating ==
  /\ ev.op = "frame" /\ calibration.collecting /\ sessions = 2
  /\ ev.path = "absence" /\ state = "sleeping" /\ confidence = "0.99"
  /\ requireAck /\ ~ev.preAck /\ ev.batches = << "sleeping" >>

\* C11: session stop leaves every piece of session state at its initial
\* value: alarms, challenge, requireAck, last alarm tier, calibration and
\* baselines, the missing-face counter, the latest classified state, the
\* active voice warning and its grace timer, the absence countdown start.
C11_StopResetsEverything ==
  ev.op = "stop" =>
    /\ activeAlarms = << >> /\ NoChallenge /\ ~requireAck
    /\ challengeType = "phrase"
    /\ lastAlarmState = "awake"
    /\ calibration = [collecting |-> FALSE, startAge |-> None, samples |-> 0]
    /\ ~baselines
    /\ state = "awake"
    /\ missingFaceFrames = 0
    /\ latestState = "awake"
    /\ activeWarning = None /\ warningStart = None
    /\ absentStart = None

\* after the stop the alarm state is reset but the voice warning, its grace
\* timer and the latest classified state are those of the stopped session
C11_WarningSurvivesStop ==
  /\ ev.op = "stop"
  /\ activeAlarms = << >> /\ NoChallenge /\ ~requireAck
  /\ activeWarning # None /\ warningStart # None
  /\ latestState # "awake"

IsProbability(p) == p.den > 0 /\ 0 <= p.num /\ p.num <= p.den

\* C14: on every fused frame, the clamped sleeping and nodding evidence lie in
\* [0, 1], the clamped awake evidence lies in [0.05, 1], the total evidence
\* is strictly positive, and the three probabilities each lie in [0, 1] and
\* sum to 1.
C14_ProbabilitiesNormalised ==
  fusion.out # None =>
    LET o == Val(fusion.out)
        s == o.sleepingProb
        n == o.noddingProb
        a == o.awakeProb
    IN  /\ 0 <= o.sleepingEvidence /\ o.sleepingEvidence <= One
        /\ 0 <= o.noddingEvidence /\ o.noddingEvidence <= One
        /\ P(5) <= o.awakeEvidence /\ o.awakeEvidence <= One
        /\ o.totalEvidence > 0
        /\ IsProbability(s) /\ IsProbability(n) /\ IsProbability(a)
        /\ s.num * n.den * a.den + n.num * s.den * a.den
             + a.num * s.den * n.den = s.den * n.den * a.den

\* a fused frame where the raw nodding evidence was above 1 and the raw awake
\* evidence was 0, so that both clamps acted, and all three states have a
\* share
C14_BothClampsActed ==
  /\ fusion.out # None
  /\ Val(fusion.out).noddingEvidence = One
  /\ Val(fusion.out).awakeEvidence = P(5)
  /\ Val(fusion.out).sleepingEvidence > 0
  /\ Val(fusion.out).sleepingEvidence < One
  /\ FaceEvidence(fusion.in, Val(fusion.out).eyesClosedFrames).nodding > One

\* C15: with all other tracker and posture outputs held fixed, the clamped
\* sleeping evidence does not decrease when the number of consecutive closed
\* frames grows, for all counts at or above the 15-frame blink filter.
C15_SleepingEvidenceMonotone ==
  (fusion.out # None /\ fusion.in.closedFrames >= MIN_CLOSED_FRAMES) =>
    \A n \in ClosedFrameSamples :
      n >= fusion.in.closedFrames =>
        Val(FuseStep(fusion, n).out).sleepingEvidence
          >= Val(fusion.out).sleepingEvidence

\* a fused frame past the blink filter whose sleeping evidence is strictly
\* between that of a shorter and that of a longer closure of the same outputs
C15_EvidenceRoseTwice ==
  /\ fusion.out # None
  /\ fusion.in.closedFrames >= MIN_CLOSED_FRAMES
  /\ \E k \in ClosedFrameSamples, n \in ClosedFrameSamples :
       /\ MIN_CLOSED_FRAMES <= k /\ k < fusion.in.closedFrames
       /\ fusion.in.closedFrames < n
       /\ Val(FuseStep(fusion, k).out).sleepingEvidence
            < Val(fusion.out).sleepingEvidence
       /\ Val(fusion.out).sleepingEvidence
            < Val(FuseStep(fusion, n).out).sleepingEvidence

\* C20: on every fused frame whose reported closed-eye duration is at least
\* 3.5 s, the classified state is noddingOff or sleeping, whatever the other
\* tracker and posture outputs are.
C20_LongClosureIsNotAwake ==
  ( /\ fusion.out # None
    /\ DurationAtLeast(Val(fusion.out).eyesClosedFrames, 35) ) =>
    Val(fusion.out).state \in {"noddingOff", "sleeping"}

\* a fused frame with eyes closed for exactly 3.5 s and the largest awake
\* evidence the posture can give (0.25 + 0.15 + 0.1), classified noddingOff
C20_BestPostureAtThreshold ==
  /\ fusion.out # None
  /\ Val(fusion.out).eyesClosedFrames * 10 = 35 * SOURCE_FPS
  /\ Val(fusion.out).awakeEvidence = P(50)
  /\ Val(fusion.out).state = "noddingOff"

\* C21: on every fused frame whose reported closed-eye duration is at least
\* 5 s, the classified state is sleeping, whatever the other tracker and
\* posture outputs are.
C21_VeryLongClosureIsSleeping ==
  ( /\ fusion.out # None
    /\ DurationAtLeast(Val(fusion.out).eyesClosedFrames,
                       10 * EYES_CLOSED_SLEEP_SEC) ) =>
    Val(fusion.out).state = "sleeping"

\* a fused frame with eyes closed for 5 s or more on which the nodding
\* evidence is clamped to 1 as well, and the tie goes to noddingOff
C21_TieGoesToNodding ==
  /\ fusion.out # None
  /\ DurationAtLeast(Val(fusion.out).eyesClosedFrames,
                     10 * EYES_CLOSED_SLEEP_SEC)
  /\ Val(fusion.out).sleepingEvidence = One
  /\ Val(fusion.out).noddingEvidence = One
  /\ fusion.in.isForwardNodding /\ fusion.in.isBackwardTilting
  /\ Val(fusion.out).state = "noddingOff"

(***************************************************************************)
(* Properties of the alarm batches.                                        *)
(***************************************************************************)
\* count entries of the library of a tier, consecutive modulo 40 from start
LibraryRun(type, start, count) ==
  [i \in 1..count |-> ALARM_LIBRARY[type][(start + (i - 1)) % LIBRARY_SIZE]]

IsLibraryBatch(alarms, type, count, level) ==
  /\ Len(alarms) = count
  /\ \E start \in 0..(LIBRARY_SIZE - 1) : alarms = LibraryRun(type, start, count)
  /\ \A i \in 1..count : alarms[i].level = level
  /\ \A i, j \in 1..count : i # j => alarms[i].id # alarms[j].id

IsAlarmSet(alarms) ==
  \/ alarms = << >>
  \/ IsLibraryBatch(alarms, "nodding", NODDING_BATCH_SIZE, "warning")
  \/ IsLibraryBatch(alarms, "sleeping", SLEEPING_BATCH_SIZE, "critical")

\* the step generated one batch of the tier, shown as the active set, which
\* starts at the cursor of the tier and moves it right after its last entry
BatchFollowsCursor(type, count) ==
  /\ activeAlarms' = LibraryRun(type, alarmCursor[type], count)
  /\ alarmCursor' =
       [alarmCursor EXCEPT ![type] = (alarmCursor[type] + count) % LIBRARY_SIZE]

\* C22: after every step the active alarm set is empty, or 4 warning entries
\* consecutive modulo 40 in the nodding library, or 5 critical entries
\* consecutive modulo 40 in the sleeping library, all distinct; a step that
\* generates a batch generates one, which starts at the library index right
\* after the last entry of the previous batch of its tier, and a step that
\* generates none leaves both cursors alone.
C22_BatchesRoundRobin ==
  [][ /\ IsAlarmSet(activeAlarms')
      /\ ev'.batches = << >> => alarmCursor' = alarmCursor
      /\ ev'.batches # << >> =>
           /\ Len(ev'.batches) = 1
           /\ ev'.batches[1] = "nodding" =>
                BatchFollowsCursor("nodding", NODDING_BATCH_SIZE)
           /\ ev'.batches[1] = "sleeping" =>
                BatchFollowsCursor("sleeping", SLEEPING_BATCH_SIZE) ]_vars

\* a nodding batch that ends on the last entry of the library, the cursor
\* back at 0, after the sleeping cursor has gone round as well
C22_CursorWentRound ==
  /\ ev.batches = << "nodding" >>
  /\ activeAlarms = LibraryRun("nodding", LIBRARY_SIZE - NODDING_BATCH_SIZE,
                               NODDING_BATCH_SIZE)
  /\ alarmCursor.nodding = 0
  /\ alarmCursor.sleeping = LIBRARY_SIZE - SLEEPING_BATCH_SIZE

(***************************************************************************)
(* Properties of the voice warnings.                                       *)
(***************************************************************************)
\* the last operation was a speakWarning call that passed the debounce
SpokePastDebounce == voice.ev.op = "speak" /\ voice.ev.effect # "debounced"

\* C23: once the speech synthesis has failed twice with no successful start
\* in between, the next speakWarning call that passes the debounce switches
\* to the tones; once switched, the switch stays, and every call that passes
\* the debounce plays a tone and hands nothing to the speech synthesis; a
\* successful start resets the failure count to 0.
C23_FallbackAfterTwoFailures ==
  /\ (SpokePastDebounce /\ voice.ev.due) =>
       (voice.ev.effect = "tone" /\ voice.useFallbackAudio)
  /\ voice.ev.fallback => voice.useFallbackAudio
  /\ (SpokePastDebounce /\ voice.ev.fallback) => voice.ev.effect = "tone"
  /\ voice.ev.op = "onstart" => voice.speechFailureCount = 0

\* after two failures in a row an utterance started late and reset the
\* count; the next call that passed the debounce handed a new utterance to
\* the speech synthesis
C23_LateStartUndoesFailures ==
  /\ SpokePastDebounce
  /\ voice.ev.due
  /\ voice.ev.count = 0
  /\ voice.ev.effect = "speak"
  /\ ~voice.useFallbackAudio

(***************************************************************************)
(* Properties of getWarningForState.                                       *)
(***************************************************************************)
\* the categories in their order of priority: the condition of each on the
\* metrics and the messages it can give
WarningCategories(metrics) ==
  << [holds |-> metrics.landmarks = "null" /\ metrics.isPresent = Some(FALSE),
      messages |-> {"noFaceDetected"}],
     [holds |-> metrics.eyesClosedSec # None
                  /\ Val(metrics.eyesClosedSec) > 20,
      messages |-> {"eyesClosed"}],
     [holds |-> metrics.eyesClosedSec # None
                  /\ Val(metrics.eyesClosedSec) > 10,
      messages |-> {"eyesClosing"}],
     [holds |-> metrics.isHeadNodding = Some(TRUE),
      messages |-> {"headNodding"}],
     [holds |-> metrics.isSlouched = Some(TRUE),
      messages |-> {"slouching", "slouchingForward"}],
     [holds |-> metrics.isLeaning = Some(TRUE)
                  /\ metrics.leanDirection \in {Some("forward"), Some("backward")},
      messages |-> {"leaningForward", "leaningBackward"}],
     [holds |-> metrics.isHeadTiltingBack = Some(TRUE),
      messages |-> {"headTiltingBack"}],
     [holds |-> metrics.isHeadTilted = Some(TRUE),
      messages |-> {"headTilted"}],
     [holds |-> metrics.yawnCount # None /\ Val(metrics.yawnCount) >= 3,
      messages |-> {"frequentYawning"}],
     [holds |-> metrics.isYawning = Some(TRUE),
      messages |-> {"yawning"}],
     [holds |-> metrics.isLookingAway = Some(TRUE),
      messages |-> {"lookingAway"}] >>

\* C24: getWarningForState returns a message of the first category, in the
\* fixed order of priority, whose condition holds, and null exactly when no
\* condition holds.
C24_HighestPriorityWarning ==
  picker.called =>
    LET cat == WarningCategories(picker.metrics)
        first == {i \in 1..Len(cat) :
                    cat[i].holds /\ \A j \in 1..(i - 1) : ~cat[j].holds}
    IN  /\ picker.warning = None <=> first = {}
        /\ \A i \in first : Val(picker.warning).message \in cat[i].messages

\* a call whose metrics hold the conditions of a head nod, a slouch and a
\* yawn with the eyes closed for 1.5 s: the answer is eyesClosing
C24_EyesBeforeNodAndPosture ==
  /\ picker.called
  /\ picker.metrics.eyesClosedSec = Some(15)
  /\ picker.metrics.isHeadNodding = Some(TRUE)
  /\ picker.metrics.isSlouched = Some(TRUE)
  /\ picker.metrics.isYawning = Some(TRUE)
  /\ picker.warning = Warning("eyesClosing", "medium")

(***************************************************************************)
(* Properties of a voice warning episode.                                  *)
(***************************************************************************)
\* two messages of one category: one contains the first word of the other
SameCategory(a, b) ==
  \/ Includes(WARNING_MESSAGES[a], FirstWord(WARNING_MESSAGES[b]))
  \/ Includes(WARNING_MESSAGES[b], FirstWord(WARNING_MESSAGES[a]))

\* a voice warning episode is in progress past calibration: the grace timer
\* runs and no acknowledgment is required
EpisodeInProgress ==
  /\ isActive /\ ~calibration.collecting
  /\ activeWarning # None /\ warningStart # None
  /\ ~requireAck

\* the next frame, gap ticks later, if the fusion classifies it as in
NextFusedFrame(gap, in) ==
  handleLandmarksFace(Advance(Begin("frame"), gap), in, DefaultDraw)

\* C25: while a voice warning episode is in progress, a risk frame that
\* comes before the grace period ends and whose warning is the active one
\* leaves the start of the grace timer and the active warning unchanged, and
\* one whose warning is another message of the same category leaves the start
\* of the grace timer unchanged and makes its message the active warning.
C25_EscalationKeepsTimer ==
  EpisodeInProgress =>
    \A gap \in 1..MaxGap, in \in FusedOutcomes :
      LET before == Advance(Begin("frame"), gap)
          after == NextFusedFrame(gap, in)
      IN  ( /\ IsRisk(in.state) /\ in.warning # None
            /\ ~GraceExpired(before)
            /\ SameCategory(Val(in.warning), Val(activeWarning)) ) =>
            /\ after.warningStart = before.warningStart
            /\ after.activeWarning = in.warning

\* an episode in progress whose next risk frame, with the very message of
\* the active warning, is taken for a new category because the handler
\* compares with the warning it captured earlier, and restarts the timer
C25_SameMessageRestartsTimer ==
  /\ EpisodeInProgress
  /\ Val(warningStart) > 0
  /\ closure.activeWarning # None
  /\ closure.activeWarning # activeWarning
  /\ \E in \in FusedOutcomes :
       /\ IsRisk(in.state) /\ in.warning = activeWarning
       /\ ~GraceExpired(Advance(Begin("frame"), 1))
       /\ NextFusedFrame(1, in).warningStart = Some(0)
       /\ NextFusedFrame(1, in).ev.spoke

(***************************************************************************)
(* Properties of the calibration baseline.                                 *)
(***************************************************************************)
\* C26: a frame that runs the fusion uses the baselines computed when the
\* calibration completed; a frame for which they are not available reports
\* awake with low confidence and does not run the fusion.
C26_FusionUsesCalibrationBaseline ==
  isActive =>
    \A gap \in 1..MaxGap, in \in FusedOutcomes :
      LET before == Advance(Begin("frame"), gap)
          used == activeBaselines(AfterCalibrationBranch(before))
          after == handleLandmarksFace(before, in, DefaultDraw)
      IN  (calibration.collecting => in.state = "awake") =>
            /\ after.ev.path = "fused" => used = "calibrated"
            /\ used # "calibrated" =>
                 /\ after.ev.path # "fused"
                 /\ after.state = "awake"
                 /\ after.confidence \in {"0.15", "0.2"}

\* the frame that completed the calibration has run the fusion
C26_CompletionFrameFused ==
  /\ ev.op = "frame" /\ ev.path = "fused"
  /\ calRun # NoCalRun
  /\ calRun.frames >= MIN_CALIBRATION_FRAMES
  /\ baselines
  /\ confidence = "fused"

(***************************************************************************)
(* Properties of the ranking.                                              *)
(***************************************************************************)
\* fractions p and q are equal
SameFraction(p, q) == p.num * q.den = q.num * p.den

\* the probability the fusion gave a state
ProbOfState(o, st) ==
  IF st = "awake" THEN o.awakeProb
  ELSE IF st = "noddingOff" THEN o.noddingProb
  ELSE o.sleepingProb

C28_DisarmIsOneWay ==
  disarmedInSession =>
    /\ ~isAbsenceAlarmArmed
    /\ absentCountdown = None

\* a disarmed session went on through frames without landmarks for as long as
\* the countdown would have taken, and an alarm is outstanding
C28_AbsentPastCountdownDisarmed ==
  /\ disarmedInSession /\ ev.op = "frame"
  /\ missingFaceFrames >= AbsenceTicks
  /\ requireAck

\* C29: on a frame without landmarks after calibration, with m the number of
\* consecutive such frames so far, the state is sleeping iff m/FPS >= 5,
\* noddingOff iff 3.5 <= m/FPS < 5 and awake otherwise; the frame on which m
\* reaches a threshold raises that tier's batch and requires acknowledgment
\* at once, with no voice warning; a frame with landmarks resets m to 0.
C29_MissingFramesDecideState ==
  /\ (NullFrameSeen /\ isActive /\ ~calibration.collecting) =>
       LET m == missingFaceFrames
           sleepNow == m >= EYES_CLOSED_SLEEP_SEC * FPS
           nodNow == ~sleepNow /\ m * 10 >= EYES_CLOSED_NOD_DECISEC * FPS
       IN  /\ state = (IF sleepNow THEN "sleeping"
                       ELSE IF nodNow THEN "noddingOff" ELSE "awake")
           /\ (sleepNow \/ nodNow) => requireAck /\ ~ev.spoke
           /\ (m = EYES_CLOSED_SLEEP_SEC * FPS /\ ~ev.preAck) =>
                ev.batches = << "sleeping" >>
           /\ ( /\ nodNow /\ ~ev.preAck
                /\ (m - 1) * 10 < EYES_CLOSED_NOD_DECISEC * FPS ) =>
                ev.batches = << "nodding" >>
  /\ (ev.op = "frame" /\ isActive /\ ev.path # "none") =>
       (missingFaceFrames = 0 <=> ~NullFrameSeen)

\* a calibrated session reports sleeping on a frame without landmarks whose
\* count of missing frames is below the 3.5 s threshold
C29_SleepingBelowNodThreshold ==
  /\ NullFrameSeen /\ isActive /\ ~calibration.collecting
  /\ missingFaceFrames * 10 < EYES_CLOSED_NOD_DECISEC * FPS
  /\ state = "sleeping" /\ confidence = "0.99" /\ requireAck

\* C30: HeadNodDetector counts a nod only on a rising edge.  nodCount goes up,
\* by exactly 1, on the frames where the window maximum exceeds the forward
\* threshold while the detector is armed (wasForward false) and on no other;
\* once it has counted, the detector is armed again only by a frame whose
\* window maximum is below the threshold minus 3 degrees; the pitch window
\* never holds more than HISTORY_SIZE samples.
C30_NodCountedOnRisingEdge ==
  [][ LET windowMax == trackers'.nod.windowMax
          risingEdge == /\ trackers'.op = "face"
                        /\ ~trackers.wasForward
                        /\ windowMax > HEAD_PITCH_THRESHOLD
      IN  /\ trackers'.nodCount =
               trackers.nodCount + (IF risingEdge THEN 1 ELSE 0)
          /\ risingEdge => trackers'.wasForward
          /\ (trackers.wasForward /\ ~trackers'.wasForward) =>
               windowMax < HEAD_PITCH_THRESHOLD - FORWARD_HYSTERESIS
          /\ Len(trackers'.pitchHistory) <= HISTORY_SIZE
    ]_vars

\* a second nod was counted after the window fell into the hysteresis band,
\* then below it, and rose again: the window is full and holds a sample
\* that is a rising edge
C30_SecondNodCounted ==
  /\ trackers.op = "face" /\ trackers.nodCount = 2
  /\ trackers.wasForward /\ ~trackers.prev.isForwardNodding
  /\ Len(trackers.pitchHistory) = HISTORY_SIZE
  /\ trackers.nod.windowMax > HEAD_PITCH_THRESHOLD

\* C31: the yawn count YawnDetector.update reports, which isDrowsyYawnRate and
\* the fusion read, is the number of yawns completed within the last
\* YAWN_WINDOW_MS: yawns older than 60 s no longer count.
C31_YawnCountIsWindowed ==
  yawnDetector.op = "update" => yawnDetector.out.yawnCount = Len(yawnDetector.yawnTimes)

\* two yawns are reported, isDrowsyYawnRate holds, and none of them was
\* completed within the last 60 s
C31_OldYawnsStillCounted ==
  /\ yawnDetector.op = "update" /\ isDrowsyYawnRate(yawnDetector.out.yawnCount)
  /\ yawnDetector.yawnTimes = << >>

\* C32: PostureTracker.update reports isSlouched only if every pose update of
\* more than the last 3000 ms had a pose and was slouching; slouchDuration is
\* the length of that uninterrupted run, 0 on an update that is not slouching
\* or has no pose.
C32_SlouchedOnlyAfterUnbrokenRun ==
  trackers.op = "pose" =>
    LET run == trackers.slouchRun
    IN  /\ trackers.posture.isSlouched => (run # None /\ Val(run) > SLOUCH_MS)
        /\ trackers.posture.slouchDuration = (IF run = None THEN 0 ELSE Val(run))

\* isSlouched on the first slouching pose after an update without a pose
C32_SlouchedAcrossMissingPose ==
  /\ trackers.op = "pose" /\ trackers.posture.isSlouched
  /\ trackers.slouchRun = Some(0)

\* C33: after PostureTracker.reset() the tracker cannot be told from a new
\* one: given the same updates it returns the same outputs, whatever updates
\* and setBaseline calls came before the reset.
C33_ResetTrackerIsLikeNew ==
  resetPair.phase = "reset" => resetPair.outUsed = resetPair.outFresh

\* the reset tracker reports a forward lean on a pose for which a new tracker
\* reports none
C33_LeanBaselineSurvivesReset ==
  /\ resetPair.phase = "reset" /\ resetPair.outUsed # None
  /\ Val(resetPair.outUsed).isLeaning
  /\ ~Val(resetPair.outFresh).isLeaning

\* C34: two sessions side by side do not influence each other.  What a call
\* of session A does (it is debounced, it speaks, it is skipped, it plays the
\* tone instead of speaking) is the same whether or not session B issues
\* warnings or has speech failures.
C34_SessionsDoNotInterfere ==
  sideBySide.last # None =>
    Val(sideBySide.last).shared = Val(sideBySide.last).alone

\* B's two speech failures make A's warning a tone, where A alone would speak
C34_OtherSessionsFailuresSwitchToTone ==
  /\ sideBySide.op = "A" /\ sideBySide.last # None
  /\ Val(sideBySide.last).shared = "tone"
  /\ Val(sideBySide.last).alone = "speak"
  /\ sideBySide.alone.speechFailureCount = 0

\* C35: a rejected acknowledgment changes nothing.  Whenever silenceAlarm
\* returns false, the active alarms, the challenge (type, phrase, prompt,
\* answer), requireAck, the last alarm tier, the alarm cursors and the
\* voice-warning timer are the same after the call as before it.
C35_RejectedAnswerChangesNothing ==
  [][ (ev'.op = "silence" /\ ev'.ret = "false") =>
        /\ activeAlarms' = activeAlarms
        /\ challengeType' = challengeType
        /\ alarmPhrase' = alarmPhrase
        /\ challengePrompt' = challengePrompt
        /\ challengeAnswer' = challengeAnswer
        /\ requireAck' = requireAck
        /\ lastAlarmState' = lastAlarmState
        /\ alarmCursor' = alarmCursor
        /\ warningStart' = warningStart
        /\ activeWarning' = activeWarning
    ]_vars

\* a wrong answer was rejected while the user is awake and a trivia or math
\* challenge is outstanding
C35_WrongAnswerRejected ==
  /\ ev.op = "silence" /\ ev.ret = "false"
  /\ requireAck /\ latestState = "awake" /\ challengeType # "phrase"
  /\ activeAlarms # << >> /\ challengeAnswer # None

\* C36: in every reachable state an outstanding acknowledgment has a visible
\* alarm batch (requireAck implies a non-empty active alarm set), and while
\* requireAck is false silenceAlarm returns true for any input and leaves the
\* alarm set empty.
C36_AckHasBatchAndIdleSilenceSucceeds ==
  /\ requireAck => activeAlarms # << >>
  /\ ~requireAck =>
       \A input \in SilenceInputs :
         LET n == silenceAlarm(Begin("silence"), input)
         IN  n.ev.ret = "true" /\ n.activeAlarms = << >> /\ ~n.requireAck

\* an acknowledgment is outstanding after a frame without landmarks that
\* classified awake, the batch still there
C36_BatchKeptThroughAwakeFrame ==
  /\ requireAck /\ ev.preAck /\ NullFrameSeen /\ latestState = "awake"
  /\ activeAlarms # << >>

\* C37: whenever a frame sets the displayed state to sleeping or noddingOff
\* and leaves an acknowledgment outstanding (fused path, missing-frame path
\* or the absence-countdown alarm), latestStateRef, which silenceAlarm
\* consults, is that same state, so that no answer given before the next
\* frame is accepted.
C37_AlarmStateIsTheStateConsulted ==
  (ev.op = "frame" /\ IsRisk(state) /\ requireAck) =>
    /\ latestState = state
    /\ \A input \in SilenceInputs :
         silenceAlarm(Begin("silence"), input).ev.ret = "false"

\* the absence countdown raised its alarm and the right answer would silence
\* it before any other frame
C37_AbsenceAlarmSilencedAtOnce ==
  /\ ev.op = "frame" /\ ev.path = "absence" /\ state = "sleeping"
  /\ requireAck /\ latestState = "awake"
  /\ \E input \in SilenceInputs :
       silenceAlarm(Begin("silence"), input).ev.ret = "true"

\* C38: while an acknowledgment is outstanding for a sleeping-tier alarm the
\* tier is never downgraded: a frame, with or without landmarks, that leaves
\* the acknowledgment outstanding leaves a 5-item sleeping batch active and
\* the last alarm tier at sleeping.
C38_SleepingTierNotDowngraded ==
  [][ ( /\ requireAck /\ lastAlarmState = "sleeping"
        /\ ev'.op = "frame" /\ requireAck' ) =>
        /\ lastAlarmState' = "sleeping"
        /\ IsBatchOf(activeAlarms', "sleeping")
    ]_vars

\* with an acknowledgment outstanding, a frame without landmarks at 3.5 s of
\* absence replaced the batch by a nodding batch and kept the challenge
C38_NoddingBatchOverOutstandingAlarm ==
  /\ NullFrameSeen /\ ev.preAck /\ requireAck
  /\ ev.batches = << "nodding" >> /\ ev.challenges = 0
  /\ lastAlarmState = "noddingOff" /\ IsBatchOf(activeAlarms, "noddingOff")
  /\ challengeType # "phrase"

\* C39: after the cleanup of a tracking effect has run, no face or pose frame
\* of the trackers that effect started is delivered, even when the cleanup
\* ran before the startPoseTracking promise resolved; at most one face
\* tracker and one pose tracker feed the session at any time.
C39_NoFrameAfterCleanup ==
  /\ tracking.last.op \in {"faceFrame", "poseFrame"} =>
       ~tracking.last.afterCleanup
  /\ Cardinality({e \in 1..Len(tracking.effects) :
                    FaceTrackerDelivers(tracking.effects[e])}) <= 1
  /\ Cardinality({e \in 1..Len(tracking.effects) :
                    PoseTrackerDelivers(tracking.effects[e])}) <= 1

\* a pose frame of an effect whose cleanup ran before its promise resolved is
\* delivered while the pose tracker of the next effect delivers too
C39_LeakedPoseTrackerFeeds ==
  /\ tracking.last.op = "poseFrame" /\ tracking.last.afterCleanup
  /\ tracking.last.effect = 1
  /\ Len(tracking.effects) >= 2
  /\ PoseTrackerDelivers(tracking.effects[2])
  /\ ~tracking.effects[2].cleaned

\* C40: extensionDisabled is written only after 10 distinct loaded puzzles
\* were answered correctly since the modal was last opened; puzzlesSolved
\* goes up at most once per loaded puzzle, never on a wrong answer, and
\* opening the modal resets it to 0.
C40_TenDistinctPuzzlesDisable ==
  /\ popup.puzzlesSolved <= popup.distinctSolved
  /\ popup.op = "disabled" => popup.distinctSolved >= REQUIRED_PUZZLES
  /\ popup.op = "show" => popup.puzzlesSolved = 0

\* the extension was disabled with a single loaded puzzle answered, its
\* correct answer submitted again and again before the next puzzle loaded
C40_DisabledByOnePuzzle ==
  /\ popup.op = "disabled" /\ popup.extensionDisabled
  /\ popup.distinctSolved = 1
  /\ popup.puzzlesSolved = REQUIRED_PUZZLES

=============================================================================
